---- MODULE Spec2Model ----
(***************************************************************************)
(* State-machine model of the VectorDb repository: the in-memory          *)
(* repository (app/repo/memory.py), the mutation services                  *)
(* (app/services/{libraries,documents,chunks}.py), the indexing and        *)
(* search services, and the WAL + snapshot store                           *)
(* (app/persistence/store.py, app/singletons.py).                          *)
(*                                                                         *)
(* Conventions.  UUIDs are small naturals handed out by counters (uuid4    *)
(* never repeats an id).  None is NoDim (0) for embedding_dim, NoEmb       *)
(* (<<>>) for an embedding and NoText (0) for an absent text/name patch.   *)
(* A Python dict is a function whose DOMAIN is its key set.  Timestamps    *)
(* (ts, created_at) and the free-form description/metadata fields are not  *)
(* carried: no handler reads them back.                                    *)
(*                                                                         *)
(* All services share one InMemoryRepo, as app/singletons.py and the       *)
(* service constructors intend.  (app/api/libraries.py line 14 builds a    *)
(* second repository for the library/document/chunk routers; the model     *)
(* takes the services on the shared one, which favours the properties      *)
(* checked below.)                                                         *)
(***************************************************************************)
EXTENDS Integers, Sequences, FiniteSets, TLC

(* ------------------------------ bounds -------------------------------- *)
MaxLibs == 1
MaxDocs == 2
MaxChunks == 1
MaxWal == 3
MaxSnapshots == 1
MaxName == 2
MaxTitle == 1
MaxText == 1
MaxQDim == 2
MaxK == 2
MaxFail == 2
MaxFaults == 1
MaxThreads == 3
MaxWorkers == 2
EmbedDim == 2
MaxIndexed == 3
MaxPairs == 3
MaxCascadeWal == 12
MaxDepth == 2

\* ids a request may name: every id that can be handed out, and for libraries one
\* more that no library ever gets
LibIds == 1..(MaxLibs + 1)
DocIds == 1..MaxDocs
ChunkIds == 1..MaxChunks
Names == 1..MaxName
Titles == 1..MaxTitle
Texts == 1..MaxText
\* the texts an update can bring: those chunks are created with, and one more
NewTexts == 1..(MaxText + 1)
NoText == 0
NoDim == 0
NoEmb == <<>>
Algos == {"flat", "rp"}
Metrics == {"cosine", "l2"}

(* ----------------------------- dict helpers --------------------------- *)
EmptyMap == [x \in {} |-> 0]

Put(f, k, v) == [x \in (DOMAIN f) \cup {k} |-> IF x = k THEN v ELSE f[x]]

Pop(f, k) == [x \in (DOMAIN f) \ {k} |-> f[x]]

Get(f, k, d) == IF k \in DOMAIN f THEN f[k] ELSE d

\* list(some_set): the iteration order of a set is fixed but arbitrary
ListOf(S) == CHOOSE s \in [1..Cardinality(S) -> S] : \A x \in S : \E i \in DOMAIN s : s[i] = x

RECURSIVE Remove(_, _)
Remove(s, x) ==
  IF s = <<>> THEN <<>>
  ELSE IF Head(s) = x THEN Remove(Tail(s), x)
  ELSE <<Head(s)>> \o Remove(Tail(s), x)

(* ----------------------------- domain models -------------------------- *)
IndexState == [built |-> FALSE, algo |-> "none", metric |-> "cosine", size |-> 0]

Library(id, name) ==
  [id |-> id, name |-> name, index_state |-> IndexState, embedding_dim |-> NoDim]

Document(id, lib_id, title) ==
  [id |-> id, library_id |-> lib_id, title |-> title, chunk_ids |-> <<>>]

Chunk(id, lib_id, doc_id, text) ==
  [id |-> id, library_id |-> lib_id, document_id |-> doc_id, text |-> text,
   embedding |-> NoEmb]

\* model_dump(mode="json") then re-validation by the model class: only declared fields survive
LibraryJson(l) ==
  [id |-> l.id, name |-> l.name, index_state |-> l.index_state,
   embedding_dim |-> l.embedding_dim]

DocumentJson(d) ==
  [id |-> d.id, library_id |-> d.library_id, title |-> d.title, chunk_ids |-> d.chunk_ids]

ChunkJson(c) ==
  [id |-> c.id, library_id |-> c.library_id, document_id |-> c.document_id,
   text |-> c.text, embedding |-> c.embedding]

\* StubEmbeddingProvider.embed: a deterministic unit vector of the configured length
embed(text) == [i \in 1..EmbedDim |-> IF i = ((text - 1) % EmbedDim) + 1 THEN 1 ELSE 0]

(* ----------------------------- repository ----------------------------- *)
\* InMemoryRepo.__init__; locks maps a library id to the identity of its RWLock object
InMemoryRepo ==
  [libraries |-> EmptyMap, documents |-> EmptyMap, chunks |-> EmptyMap,
   by_library_docs |-> EmptyMap, by_document_chunks |-> EmptyMap, locks |-> EmptyMap]

Range(f) == {f[x] : x \in DOMAIN f}

\* identity of a newly allocated RWLock: one that no dict entry and no thread refers to
NewLockId(locks, live) ==
  CHOOSE i \in 1..(Cardinality(Range(locks) \cup live) + 1) : i \notin Range(locks) \cup live

\* InMemoryRepo.get_lock: lazily creates the lock; live = lock objects threads still hold
get_lock(r, lib_id, live) ==
  IF lib_id \in DOMAIN r.locks THEN r
  ELSE [r EXCEPT !.locks = Put(@, lib_id, NewLockId(r.locks, live))]

\* dict.setdefault(key, set()).add(x)
SetAdd(f, k, x) == Put(f, k, Get(f, k, {}) \cup {x})

\* s = d.get(key); if s and x in s: s.remove(x)   (also d.get(key, set()).discard(x))
SetDiscard(f, k, x) == IF k \in DOMAIN f THEN [f EXCEPT ![k] = @ \ {x}] ELSE f

(* --------------------------- WAL, handler runs ------------------------ *)
\* A handler run threads a record through its statements: the repository, the WAL
\* file, the number of append_wal calls made so far and the outcome.  fail is the
\* ordinal of the append_wal call that raises (0: the disk never fails).
Run(r, w) == [repo |-> r, wal |-> w, n |-> 0, status |-> "ok"]

Raise(s, err) == IF s.status = "ok" THEN [s EXCEPT !.status = err] ELSE s

Mem(s, r) == IF s.status = "ok" THEN [s EXCEPT !.repo = r] ELSE s

\* DiskStore.append_wal: one line appended and fsynced, or an I/O error
append_wal(s, entry, fail) ==
  IF s.status # "ok" THEN s
  ELSE IF s.n + 1 = fail THEN [s EXCEPT !.n = @ + 1, !.status = "io_error"]
  ELSE [s EXCEPT !.n = @ + 1, !.wal = Append(@, entry)]

\* {**cur.model_dump(), **data}: the patch's keys override the current fields
Patched(cur, data) ==
  [k \in (DOMAIN cur) \cup (DOMAIN data) |-> IF k \in DOMAIN data THEN data[k] ELSE cur[k]]

(* ---------------------------- LibraryService -------------------------- *)
LibraryService_create(r, w, id, name, fail, live) ==
  LET lib == Library(id, name)
      r1 == [r EXCEPT !.libraries = Put(@, id, lib), !.by_library_docs = Put(@, id, {})]
      r2 == get_lock(r1, id, live)
  IN append_wal(Mem(Run(r, w), r2), [op |-> "library.create", data |-> LibraryJson(lib)], fail)

LibraryService_update(r, w, lib_id, name, fail) ==
  IF lib_id \notin DOMAIN r.libraries THEN Raise(Run(r, w), "key_error")
  ELSE LET lib == r.libraries[lib_id]
       IN IF name # NoText /\ name # lib.name
          THEN append_wal(Mem(Run(r, w), [r EXCEPT !.libraries[lib_id].name = name]),
                          [op |-> "library.update", id |-> lib_id, data |-> [name |-> name]],
                          fail)
          ELSE Run(r, w)

\* chunk_ids_in_order: for did in doc_ids: extend(list(by_document_chunks.get(did, [])))
RECURSIVE ChunkIdsInOrder(_, _)
ChunkIdsInOrder(r, doc_ids) ==
  IF doc_ids = <<>> THEN <<>>
  ELSE ListOf(Get(r.by_document_chunks, Head(doc_ids), {})) \o ChunkIdsInOrder(r, Tail(doc_ids))

\* LibraryService.delete, step 1: pop each chunk, fix its document's set, log chunk.delete
RECURSIVE LibDeleteChunks(_, _, _)
LibDeleteChunks(s, cids, fail) ==
  IF cids = <<>> \/ s.status # "ok" THEN s
  ELSE LET cid == Head(cids)
           r == s.repo
       IN IF cid \in DOMAIN r.chunks
          THEN LET c == r.chunks[cid]
                   r1 == [r EXCEPT !.chunks = Pop(@, cid),
                                   !.by_document_chunks = SetDiscard(@, c.document_id, cid)]
               IN LibDeleteChunks(append_wal(Mem(s, r1), [op |-> "chunk.delete", id |-> cid], fail),
                                  Tail(cids), fail)
          ELSE LibDeleteChunks(s, Tail(cids), fail)

\* LibraryService.delete, step 2: pop each document and its chunk set, log document.delete
RECURSIVE LibDeleteDocs(_, _, _)
LibDeleteDocs(s, dids, fail) ==
  IF dids = <<>> \/ s.status # "ok" THEN s
  ELSE LET did == Head(dids)
           r == s.repo
           r1 == [r EXCEPT !.documents = Pop(@, did), !.by_document_chunks = Pop(@, did)]
       IN LibDeleteDocs(append_wal(Mem(s, r1), [op |-> "document.delete", id |-> did], fail),
                        Tail(dids), fail)

\* a delete that drops the library record only and leaves its documents and chunks
LibraryService_delete_NoCascade(r, w, lib_id, fail) ==
  LET r3 == [r EXCEPT !.by_library_docs = Pop(@, lib_id),
                      !.libraries = Pop(@, lib_id),
                      !.locks = Pop(@, lib_id)]
  IN append_wal(Mem(Run(r, w), r3), [op |-> "library.delete", id |-> lib_id], fail)

\* LibraryService.delete going document by document: the chunks of a document, then
\* the document, then the next document
RECURSIVE LibDeletePerDocument(_, _, _)
LibDeletePerDocument(s, dids, fail) ==
  IF dids = <<>> \/ s.status # "ok" THEN s
  ELSE LibDeletePerDocument(
         LibDeleteDocs(LibDeleteChunks(s, ChunkIdsInOrder(s.repo, <<Head(dids)>>), fail),
                       <<Head(dids)>>, fail),
         Tail(dids), fail)

LibraryService_delete_PerDocument(r, w, lib_id, fail) ==
  LET doc_ids == ListOf(Get(r.by_library_docs, lib_id, {}))
      s2 == LibDeletePerDocument(Run(r, w), doc_ids, fail)
      r3 == [s2.repo EXCEPT !.by_library_docs = Pop(@, lib_id),
                            !.libraries = Pop(@, lib_id),
                            !.locks = Pop(@, lib_id)]
  IN append_wal(Mem(s2, r3), [op |-> "library.delete", id |-> lib_id], fail)

LibraryService_delete(r, w, lib_id, fail) ==
  LET doc_ids == ListOf(Get(r.by_library_docs, lib_id, {}))
      chunk_ids_in_order == ChunkIdsInOrder(r, doc_ids)
      s1 == LibDeleteChunks(Run(r, w), chunk_ids_in_order, fail)
      s2 == LibDeleteDocs(s1, doc_ids, fail)
      r3 == [s2.repo EXCEPT !.by_library_docs = Pop(@, lib_id),
                            !.libraries = Pop(@, lib_id),
                            !.locks = Pop(@, lib_id)]
  IN append_wal(Mem(s2, r3), [op |-> "library.delete", id |-> lib_id], fail)

(* ---------------------------- DocumentService ------------------------- *)
DocumentService_create(r, w, id, lib_id, title, fail) ==
  LET doc == Document(id, lib_id, title)
      r1 == [r EXCEPT !.documents = Put(@, id, doc),
                      !.by_library_docs = SetAdd(@, lib_id, id),
                      !.by_document_chunks = Put(@, id, {})]
  IN append_wal(Mem(Run(r, w), r1), [op |-> "document.create", data |-> DocumentJson(doc)], fail)

DocumentService_update(r, w, doc_id, title, fail) ==
  IF doc_id \notin DOMAIN r.documents THEN Raise(Run(r, w), "key_error")
  ELSE LET d == r.documents[doc_id]
       IN IF title # NoText /\ title # d.title
          THEN append_wal(Mem(Run(r, w), [r EXCEPT !.documents[doc_id].title = title]),
                          [op |-> "document.update", id |-> doc_id, data |-> [title |-> title]],
                          fail)
          ELSE Run(r, w)

\* DocumentService.delete, step 1: pop each chunk, discard it from by_document_chunks[doc_id]
RECURSIVE DocDeleteChunks(_, _, _, _)
DocDeleteChunks(s, doc_id, cids, fail) ==
  IF cids = <<>> \/ s.status # "ok" THEN s
  ELSE LET cid == Head(cids)
           r == s.repo
       IN IF cid \in DOMAIN r.chunks
          THEN LET r1 == [r EXCEPT !.chunks = Pop(@, cid),
                                   !.by_document_chunks = SetDiscard(@, doc_id, cid)]
               IN DocDeleteChunks(append_wal(Mem(s, r1), [op |-> "chunk.delete", id |-> cid], fail),
                                  doc_id, Tail(cids), fail)
          ELSE DocDeleteChunks(s, doc_id, Tail(cids), fail)

\* DocumentService.delete once chunk_ids has been collected
DocDeleteFrom(r, w, lib_id, doc_id, chunk_ids, fail) ==
  LET s1 == DocDeleteChunks(Run(r, w), doc_id, chunk_ids, fail)
      r2 == [s1.repo EXCEPT !.by_document_chunks = Pop(@, doc_id),
                            !.by_library_docs = SetDiscard(@, lib_id, doc_id),
                            !.documents = Pop(@, doc_id)]
  IN append_wal(Mem(s1, r2), [op |-> "document.delete", id |-> doc_id], fail)

DocumentService_delete(r, w, lib_id, doc_id, fail) ==
  DocDeleteFrom(r, w, lib_id, doc_id, ListOf(Get(r.by_document_chunks, doc_id, {})), fail)

(* ------------------------------ validation ---------------------------- *)
\* ensure_dim: the first vector fixes the library's dimension, later ones must match.
\* Returns the repository and whether the vector was accepted.
ensure_dim(r, lib_id, vec) ==
  LET lib == r.libraries[lib_id]
      dim == Len(vec)
  IN IF lib.embedding_dim = NoDim
     THEN [repo |-> [r EXCEPT !.libraries[lib_id].embedding_dim = dim], ok |-> TRUE]
     ELSE [repo |-> r, ok |-> lib.embedding_dim = dim]

(* ------------------------------ ChunkService -------------------------- *)
\* ChunkService.create, the statements run under the write lock: ensure_dim, then the
\* chunk is stored and linked.  A library or document removed since the checks makes
\* the dict lookup raise KeyError; what was stored before the raise stays stored.
ChunkCreateLocked(r, id, lib_id, doc_id, text, compute_embedding) ==
  LET emb == embed(text)
      chunk == [Chunk(id, lib_id, doc_id, text) EXCEPT
                  !.embedding = IF compute_embedding THEN emb ELSE NoEmb]
      ed == IF compute_embedding THEN ensure_dim(r, lib_id, emb) ELSE [repo |-> r, ok |-> TRUE]
      r2 == [ed.repo EXCEPT !.chunks = Put(@, id, chunk),
                            !.by_document_chunks = SetAdd(@, doc_id, id)]
  IN IF compute_embedding /\ lib_id \notin DOMAIN r.libraries
     THEN [repo |-> r, status |-> "key_error", chunk |-> chunk]
     ELSE IF ~ed.ok THEN [repo |-> r, status |-> "bad_request", chunk |-> chunk]
     ELSE IF doc_id \notin DOMAIN r.documents
     THEN [repo |-> r2, status |-> "key_error", chunk |-> chunk]
     ELSE [repo |-> [r2 EXCEPT !.documents[doc_id].chunk_ids = Append(@, id)],
           status |-> "ok", chunk |-> chunk]

ChunkService_create(r, w, id, lib_id, doc_id, text, compute_embedding, fail, live) ==
  IF lib_id \notin DOMAIN r.libraries THEN Raise(Run(r, w), "not_found")
  ELSE IF doc_id \notin DOMAIN r.documents THEN Raise(Run(r, w), "not_found")
  ELSE IF r.documents[doc_id].library_id # lib_id THEN Raise(Run(r, w), "bad_request")
  ELSE
    LET m == ChunkCreateLocked(get_lock(r, lib_id, live), id, lib_id, doc_id, text,
                               compute_embedding)
    IN IF m.status # "ok" THEN Raise(Mem(Run(r, w), m.repo), m.status)
       ELSE append_wal(Mem(Run(r, w), m.repo),
                       [op |-> "chunk.create", data |-> ChunkJson(m.chunk)], fail)

\* an update that stores the new text and logs it but keeps the old embedding
ChunkService_update_StaleEmbedding(r, w, chunk_id, text, fail, live) ==
  IF chunk_id \notin DOMAIN r.chunks THEN Raise(Run(r, w), "not_found")
  ELSE
    LET lib_id == r.chunks[chunk_id].library_id
        r0 == get_lock(r, lib_id, live)
        r1 == [r0 EXCEPT !.chunks[chunk_id].text = text]
    IN IF text = NoText THEN Run(r0, w)
       ELSE append_wal(Mem(Run(r, w), r1),
                       [op |-> "chunk.update", id |-> chunk_id,
                        data |-> [text |-> text, embedding |-> r1.chunks[chunk_id].embedding]],
                       fail)

ChunkService_update(r, w, chunk_id, text, fail, live) ==
  IF chunk_id \notin DOMAIN r.chunks THEN Raise(Run(r, w), "not_found")
  ELSE
    LET lib_id == r.chunks[chunk_id].library_id
        r0 == get_lock(r, lib_id, live)
        r1 == [r0 EXCEPT !.chunks[chunk_id].text = text]
        emb == embed(text)
        ed == ensure_dim(r1, lib_id, emb)
        r2 == [ed.repo EXCEPT !.chunks[chunk_id].embedding = emb]
    IN IF text = NoText THEN Run(r0, w)
       ELSE IF lib_id \notin DOMAIN r1.libraries THEN Raise(Run(r1, w), "key_error")
       ELSE IF ~ed.ok THEN Raise(Run(r1, w), "bad_request")
       ELSE append_wal(Mem(Run(r, w), r2),
                       [op |-> "chunk.update", id |-> chunk_id,
                        data |-> [text |-> text, embedding |-> emb]], fail)

ChunkService_delete(r, w, doc_id, chunk_id, fail, live) ==
  IF doc_id \notin DOMAIN r.documents THEN Raise(Run(r, w), "not_found")
  ELSE IF chunk_id \notin DOMAIN r.chunks THEN Run(r, w)
  ELSE IF r.documents[doc_id].library_id # r.chunks[chunk_id].library_id
       THEN Raise(Run(r, w), "bad_request")
  ELSE
    LET r0 == get_lock(r, r.chunks[chunk_id].library_id, live)
        r1 == [r0 EXCEPT !.by_document_chunks = SetDiscard(@, doc_id, chunk_id),
                         !.documents[doc_id].chunk_ids = Remove(@, chunk_id),
                         !.chunks = Pop(@, chunk_id)]
    IN append_wal(Mem(Run(r, w), r1), [op |-> "chunk.delete", id |-> chunk_id], fail)

(* ------------------------------ metric kernels ------------------------ *)
Min(a, b) == IF a < b THEN a ELSE b

Max(a, b) == IF a > b THEN a ELSE b

\* sum(x*y for x, y in zip(a, b)): zip stops at the shorter vector
RECURSIVE DotUpTo(_, _, _)
DotUpTo(a, b, n) == IF n = 0 THEN 0 ELSE a[n] * b[n] + DotUpTo(a, b, n - 1)

dot(a, b) == DotUpTo(a, b, Min(Len(a), Len(b)))

RECURSIVE L2UpTo(_, _, _)
L2UpTo(a, b, n) == IF n = 0 THEN 0 ELSE (a[n] - b[n]) * (a[n] - b[n]) + L2UpTo(a, b, n - 1)

l2sq(a, b) == L2UpTo(a, b, Min(Len(a), Len(b)))

cosine(a, b) == dot(a, b)

\* the unified larger-is-better score (FlatIndex.query, RPForestIndex._score, _score_metric)
Score(metric, q, v) == IF metric = "cosine" THEN cosine(q, v) ELSE 0 - l2sq(q, v)

\* position of the last pair with the largest score
LastMax(scored) ==
  CHOOSE i \in DOMAIN scored :
    /\ \A j \in DOMAIN scored : scored[j][2] <= scored[i][2]
    /\ \A j \in (i + 1)..Len(scored) : scored[j][2] < scored[i][2]

\* position of the first pair with the largest score
FirstMax(scored) ==
  CHOOSE i \in DOMAIN scored :
    /\ \A j \in DOMAIN scored : scored[j][2] <= scored[i][2]
    /\ \A j \in 1..(i - 1) : scored[j][2] < scored[i][2]

DropAt(s, i) == SubSeq(s, 1, i - 1) \o SubSeq(s, i + 1, Len(s))

\* heapq.nlargest(k, scored, key=score): descending, equal scores in input order
RECURSIVE nlargest(_, _)
nlargest(k, scored) ==
  IF k <= 0 \/ scored = <<>> THEN <<>>
  ELSE LET i == FirstMax(scored)
       IN <<scored[i]>> \o nlargest(k - 1, DropAt(scored, i))

(* ------------------------------ indices ------------------------------- *)
\* FlatIndex after rebuild(pairs): parallel lists of ids and vectors
FlatIndex(metric, pairs) ==
  [metric |-> metric, ids |-> [i \in DOMAIN pairs |-> pairs[i][1]],
   vecs |-> [i \in DOMAIN pairs |-> pairs[i][2]]]

FlatIndex_query(idx, q, k) ==
  nlargest(k, [i \in DOMAIN idx.ids |-> <<idx.ids[i], Score(idx.metric, q, idx.vecs[i])>>])

\* RPForestIndex after rebuild(pairs).  _RPTree keeps max(leaf_size, 4) points in a
\* leaf, so a forest over at most four points is one leaf per tree holding every id.
\* candidate_mult is kept in tenths (the guard max(0.1, candidate_mult) is max(1, .)).
RPForestIndex(metric, params, pairs) ==
  [metric |-> metric, trees |-> Max(1, params.trees), leaf_size |-> Max(1, params.leaf_size),
   seed |-> params.seed, candidate_mult |-> Max(1, params.candidate_mult),
   ids |-> [i \in DOMAIN pairs |-> pairs[i][1]],
   vecs |-> [i \in DOMAIN pairs |-> pairs[i][2]]]

\* the orders in which iterating a Python set can yield its elements (a set of str
\* iterates in hash order, which differs from process to process)
Orders(S) ==
  {o \in [1..Cardinality(S) -> S] : \A i, j \in 1..Cardinality(S) : o[i] = o[j] => i = j}

\* cand_ids of RPForestIndex.query for single-leaf trees: every id of the index
RPCandidates(idx) == {idx.ids[i] : i \in DOMAIN idx.ids}

\* RPForestIndex.query for single-leaf trees: the candidate set is every id; order is
\* list(cand_ids), cut to the cap int(trees * leaf_size * candidate_mult) or k, then
\* ranked exactly
RPForestIndex_query(idx, q, k, order) ==
  LET limit == Max(k, (idx.trees * idx.leaf_size * idx.candidate_mult) \div 10)
      cand == SubSeq(order, 1, Min(Len(order), limit))
      vecOf(cid) == idx.vecs[CHOOSE i \in DOMAIN idx.ids : idx.ids[i] = cid]
  IN nlargest(k, [i \in DOMAIN cand |-> <<cand[i], Score(idx.metric, q, vecOf(cand[i]))>>])

NoIndex == [metric |-> "none", ids |-> <<>>]

DefaultParams == [trees |-> 8, leaf_size |-> 64, seed |-> 42, candidate_mult |-> 20]

\* IndexingService._pairs_for_library (and the same loop in _lazy_build_flat_for):
\* the ids met while walking the secondary maps, in iteration order
RECURSIVE WalkChunkIds(_, _)
WalkChunkIds(r, doc_ids) ==
  IF doc_ids = <<>> THEN <<>>
  ELSE ListOf(Get(r.by_document_chunks, Head(doc_ids), {})) \o WalkChunkIds(r, Tail(doc_ids))

LibraryChunkIds(r, lib_id) == WalkChunkIds(r, ListOf(Get(r.by_library_docs, lib_id, {})))

\* chunks[cid] raises KeyError for an id the maps still hold but the chunk dict lost
PairsRaise(r, lib_id) ==
  \E i \in DOMAIN LibraryChunkIds(r, lib_id) : LibraryChunkIds(r, lib_id)[i] \notin DOMAIN r.chunks

RECURSIVE PairsOf(_, _)
PairsOf(r, cids) ==
  IF cids = <<>> THEN <<>>
  ELSE IF r.chunks[Head(cids)].embedding # NoEmb
       THEN <<(<<Head(cids), r.chunks[Head(cids)].embedding>>)>> \o PairsOf(r, Tail(cids))
       ELSE PairsOf(r, Tail(cids))

_pairs_for_library(r, lib_id) == PairsOf(r, LibraryChunkIds(r, lib_id))

(* ---------------------------- IndexingService ------------------------- *)
\* IndexingService._create_index: a fresh index replaces the cache entry
_create_index(flat, rp, r, lib_id, algo, metric, params) ==
  LET pairs == _pairs_for_library(r, lib_id)
  IN IF algo = "flat"
     THEN [flat |-> Put(flat, lib_id, FlatIndex(metric, pairs)), rp |-> rp, size |-> Len(pairs)]
     ELSE [flat |-> flat, rp |-> Put(rp, lib_id, RPForestIndex(metric, params, pairs)),
           size |-> Len(pairs)]

\* IndexingService.build.  Library (domain/models.py) declares no index_states field,
\* so reading lib.index_states in the update_state branch raises AttributeError
\* after the cache entry has been replaced; nothing is written to the library or
\* to the WAL.
IndexingService_build(flat, rp, r, lib_id, algo, metric, params, update_state, live) ==
  IF lib_id \notin DOMAIN r.libraries
  THEN [repo |-> r, flat |-> flat, rp |-> rp, status |-> "not_found"]
  ELSE LET r0 == get_lock(r, lib_id, live)
           ci == _create_index(flat, rp, r0, lib_id, algo, metric, params)
       IN IF PairsRaise(r0, lib_id)
          THEN [repo |-> r0, flat |-> flat, rp |-> rp, status |-> "key_error"]
          ELSE [repo |-> r0, flat |-> ci.flat, rp |-> ci.rp,
                status |-> IF update_state THEN "attr_error" ELSE "ok"]

get_available_index(flat, rp, lib_id, prefer) ==
  IF prefer = "rp" /\ lib_id \in DOMAIN rp THEN [kind |-> "rp", inst |-> rp[lib_id]]
  ELSE IF prefer = "flat" /\ lib_id \in DOMAIN flat THEN [kind |-> "flat", inst |-> flat[lib_id]]
  ELSE IF lib_id \in DOMAIN rp THEN [kind |-> "rp", inst |-> rp[lib_id]]
  ELSE IF lib_id \in DOMAIN flat THEN [kind |-> "flat", inst |-> flat[lib_id]]
  ELSE [kind |-> "none", inst |-> NoIndex]

\* IndexingService.restore_all_indices: dict(lib.index_states) raises AttributeError
\* for the first library it meets; with no library there is nothing to restore
restore_all_indices(r) == IF DOMAIN r.libraries = {} THEN "ok" ELSE "attr_error"

(* ------------------------------ SearchService ------------------------- *)
\* req.filters is None
NoFilters == [none |-> TRUE]

\* a sub-filter (FilterSpec.chunk / .document / .library) that is None
NoSpec == [field |-> "none", op |-> "none", arg |-> 0]

SearchRequest(query_text, query_embedding, k, algo, metric, filters) ==
  [query_text |-> query_text, query_embedding |-> query_embedding, k |-> k,
   algo |-> algo, metric |-> metric, filters |-> filters]

SearchHit(c, score) ==
  [chunk_id |-> c.id, document_id |-> c.document_id, library_id |-> c.library_id,
   score |-> score, text |-> c.text]

\* filters.match_obj for a spec of one field with one operator, {field: {op: arg}};
\* an operator that is not in _OPS is skipped
match_obj(obj, spec) ==
  IF spec = NoSpec THEN TRUE
  ELSE IF spec.op = "eq" THEN obj[spec.field] = spec.arg
  ELSE IF spec.op = "neq" THEN obj[spec.field] # spec.arg
  ELSE TRUE

\* SearchService._prefilter_ids raises KeyError: with filters present it reads
\* documents[doc_id] and chunks[cid] for every id the secondary maps hold
PrefilterRaises(r, lib_id, filters) ==
  /\ filters # NoFilters
  /\ \/ \E d \in Get(r.by_library_docs, lib_id, {}) : d \notin DOMAIN r.documents
     \/ PairsRaise(r, lib_id)

\* SearchService._prefilter_ids: the chunk ids that pass, all of them without filters
_prefilter_ids(r, lib_id, filters) ==
  LET all == {LibraryChunkIds(r, lib_id)[i] : i \in DOMAIN LibraryChunkIds(r, lib_id)}
  IN IF filters = NoFilters THEN all
     ELSE {cid \in all :
             \E d \in Get(r.by_library_docs, lib_id, {}) :
               /\ cid \in Get(r.by_document_chunks, d, {})
               /\ match_obj(r.documents[d], filters.document)
               /\ match_obj(r.libraries[lib_id], filters.library)
               /\ match_obj(r.chunks[cid], filters.chunk)}

\* SearchService._rank_over_ids: exact scores from the stored embeddings, under the
\* request's metric; a chunk without an embedding is skipped
RECURSIVE _rank_over_ids(_, _, _, _)
_rank_over_ids(r, ids, q, metric) ==
  IF ids = <<>> THEN <<>>
  ELSE IF r.chunks[Head(ids)].embedding = NoEmb THEN _rank_over_ids(r, Tail(ids), q, metric)
  ELSE <<(<<Head(ids), Score(metric, q, r.chunks[Head(ids)].embedding)>>)>>
       \o _rank_over_ids(r, Tail(ids), q, metric)

\* [x for x in s if keep(x)]
RECURSIVE Filtered(_, _)
Filtered(s, keep) ==
  IF s = <<>> THEN <<>>
  ELSE IF Head(s)[1] \in keep THEN <<Head(s)>> \o Filtered(Tail(s), keep)
  ELSE Filtered(Tail(s), keep)

\* a search that answers algo "rp" without a live RP index from a lazily built flat
\* index, as it does for algo "flat"
SearchLocked_LazyForRP(flat, rp, lazy, r, lib_id, req, order) ==
  LET q == IF req.query_embedding # NoEmb THEN req.query_embedding ELSE embed(req.query_text)
      ed == ensure_dim(r, lib_id, q)
      r1 == ed.repo
      pref == get_available_index(flat, rp, lib_id,
                                  IF req.algo = "auto" THEN "none" ELSE req.algo)
      build == \/ (req.algo = "flat" /\ pref.kind # "flat")
               \/ (req.algo = "auto" /\ pref.kind = "none")
               \/ (req.algo = "rp" /\ pref.kind # "rp")
      algo == IF build THEN "flat" ELSE pref.kind
      lazy1 == IF build /\ lib_id \notin DOMAIN lazy THEN Put(lazy, lib_id, req.metric) ELSE lazy
      idx == IF build THEN FlatIndex(lazy1[lib_id], _pairs_for_library(r1, lib_id))
             ELSE pref.inst
      allowed_ids_set == _prefilter_ids(r1, lib_id, req.filters)
      keep == IF allowed_ids_set = {} THEN RPCandidates(idx) ELSE allowed_ids_set
      idpairs == [i \in DOMAIN idx.ids |-> <<idx.ids[i], 0>>]
      ids == [i \in DOMAIN Filtered(idpairs, allowed_ids_set) |->
                Filtered(idpairs, allowed_ids_set)[i][1]]
      cand == RPForestIndex_query(idx, q, req.k, order)
      topk == IF algo = "flat"
              THEN IF req.filters # NoFilters
                   THEN nlargest(req.k, _rank_over_ids(r1, ids, q, req.metric))
                   ELSE FlatIndex_query(idx, q, req.k)
              ELSE IF req.filters # NoFilters
                   THEN nlargest(req.k, Filtered(cand, keep))
                   ELSE nlargest(req.k, cand)
      raise(rr, ll, status, detail) ==
        [repo |-> rr, lazy |-> ll, status |-> status, detail |-> detail, hits |-> <<>>]
      out(rr, ll, status, hits) ==
        [repo |-> rr, lazy |-> ll, status |-> status, detail |-> "", hits |-> hits]
  IN IF req.query_embedding = NoEmb /\ req.query_text = NoText
     THEN raise(r, lazy, "bad_request", "Provide query_text or query_embedding")
     ELSE IF lib_id \notin DOMAIN r.libraries THEN out(r, lazy, "key_error", <<>>)
     ELSE IF ~ed.ok THEN raise(r, lazy, "bad_request", "Embedding dimension mismatch")
     ELSE IF build /\ PairsRaise(r1, lib_id) THEN out(r1, lazy, "key_error", <<>>)
     ELSE IF PrefilterRaises(r1, lib_id, req.filters) THEN out(r1, lazy1, "key_error", <<>>)
     ELSE IF \E i \in DOMAIN topk : topk[i][1] \notin DOMAIN r1.chunks
     THEN out(r1, lazy1, "key_error", <<>>)
     ELSE out(r1, lazy1, "ok",
              [i \in DOMAIN topk |-> SearchHit(r1.chunks[topk[i][1]], topk[i][2])])

\* SearchService.search, the statements run under the read lock.
\* lazy is SearchService._lazy_flat, kept as the metric each lazily built FlatIndex was
\* constructed with (its vectors are rebuilt on every use); order is the iteration
\* order of the RP candidate set.  Returns the repository (ensure_dim may have changed
\* it), _lazy_flat, the outcome and the hits.
SearchLocked(flat, rp, lazy, r, lib_id, req, order) ==
  LET q == IF req.query_embedding # NoEmb THEN req.query_embedding ELSE embed(req.query_text)
      ed == ensure_dim(r, lib_id, q)
      r1 == ed.repo
      pref == get_available_index(flat, rp, lib_id,
                                  IF req.algo = "auto" THEN "none" ELSE req.algo)
      build == (req.algo = "flat" /\ pref.kind # "flat") \/ (req.algo = "auto" /\ pref.kind = "none")
      algo == IF build THEN "flat" ELSE pref.kind
      lazy1 == IF build /\ lib_id \notin DOMAIN lazy THEN Put(lazy, lib_id, req.metric) ELSE lazy
      idx == IF build THEN FlatIndex(lazy1[lib_id], _pairs_for_library(r1, lib_id))
             ELSE pref.inst
      allowed_ids_set == _prefilter_ids(r1, lib_id, req.filters)
      \* allowed_str is None when the allowed set is empty: nothing is filtered out
      keep == IF allowed_ids_set = {} THEN RPCandidates(idx) ELSE allowed_ids_set
      idpairs == [i \in DOMAIN idx.ids |-> <<idx.ids[i], 0>>]
      ids == [i \in DOMAIN Filtered(idpairs, allowed_ids_set) |->
                Filtered(idpairs, allowed_ids_set)[i][1]]
      cand == RPForestIndex_query(idx, q, req.k, order)
      topk == IF algo = "flat"
              THEN IF req.filters # NoFilters
                   THEN nlargest(req.k, _rank_over_ids(r1, ids, q, req.metric))
                   ELSE FlatIndex_query(idx, q, req.k)
              ELSE IF req.filters # NoFilters
                   THEN nlargest(req.k, Filtered(cand, keep))
                   ELSE nlargest(req.k, cand)
      raise(rr, ll, status, detail) ==
        [repo |-> rr, lazy |-> ll, status |-> status, detail |-> detail, hits |-> <<>>]
      out(rr, ll, status, hits) ==
        [repo |-> rr, lazy |-> ll, status |-> status, detail |-> "", hits |-> hits]
  IN IF req.query_embedding = NoEmb /\ req.query_text = NoText
     THEN raise(r, lazy, "bad_request", "Provide query_text or query_embedding")
     ELSE IF lib_id \notin DOMAIN r.libraries THEN out(r, lazy, "key_error", <<>>)
     ELSE IF ~ed.ok THEN raise(r, lazy, "bad_request", "Embedding dimension mismatch")
     ELSE IF req.algo = "rp" /\ pref.kind # "rp"
     THEN raise(r1, lazy, "bad_request", "Requested RP index not built")
     ELSE IF build /\ PairsRaise(r1, lib_id) THEN out(r1, lazy, "key_error", <<>>)
     ELSE IF PrefilterRaises(r1, lib_id, req.filters) THEN out(r1, lazy1, "key_error", <<>>)
     ELSE IF \E i \in DOMAIN topk : topk[i][1] \notin DOMAIN r1.chunks
     THEN out(r1, lazy1, "key_error", <<>>)
     ELSE out(r1, lazy1, "ok",
              [i \in DOMAIN topk |-> SearchHit(r1.chunks[topk[i][1]], topk[i][2])])

SearchService_search(flat, rp, lazy, r, lib_id, req, live, order) ==
  IF lib_id \notin DOMAIN r.libraries
  THEN [repo |-> r, lazy |-> lazy, status |-> "not_found", detail |-> "Library", hits |-> <<>>]
  ELSE SearchLocked(flat, rp, lazy, get_lock(r, lib_id, live), lib_id, req, order)

\* the candidate set a search on lib_id would get from the live RP index
SearchCandidates(rp, lib_id) == IF lib_id \in DOMAIN rp THEN RPCandidates(rp[lib_id]) ELSE {}

(* ------------------------- serialization, replay ---------------------- *)
\* InMemoryRepo.dump_json
dump_json(r) ==
  [schema_version |-> 1,
   libraries |-> [k \in DOMAIN r.libraries |-> LibraryJson(r.libraries[k])],
   documents |-> [k \in DOMAIN r.documents |-> DocumentJson(r.documents[k])],
   chunks |-> [k \in DOMAIN r.chunks |-> ChunkJson(r.chunks[k])]]

RECURSIVE LocksFor(_, _, _)
LocksFor(r, lids, live) ==
  IF lids = <<>> THEN r ELSE LocksFor(get_lock(r, Head(lids), live), Tail(lids), live)

\* InMemoryRepo.hydrate: clear everything, then rebuild entity and secondary maps
hydrate(image, live) ==
  LET r1 == [InMemoryRepo EXCEPT
               !.libraries = [k \in DOMAIN image.libraries |-> LibraryJson(image.libraries[k])],
               !.documents = [k \in DOMAIN image.documents |-> DocumentJson(image.documents[k])],
               !.chunks = [k \in DOMAIN image.chunks |-> ChunkJson(image.chunks[k])],
               !.by_library_docs =
                  [l \in {image.documents[k].library_id : k \in DOMAIN image.documents} |->
                     {k \in DOMAIN image.documents : image.documents[k].library_id = l}],
               !.by_document_chunks =
                  [d \in {image.chunks[k].document_id : k \in DOMAIN image.chunks} |->
                     {k \in DOMAIN image.chunks : image.chunks[k].document_id = d}]]
  IN LocksFor(r1, ListOf(DOMAIN image.libraries), live)

\* InMemoryRepo.apply_wal_entry: one logged operation applied to the maps, no logging.
\* s is a handler run; a missing key raises KeyError and stops the replay.
apply_wal_entry(s, entry, live) ==
  LET r == s.repo
      op == entry.op
  IN IF s.status # "ok" THEN s
     ELSE IF op = "library.create"
     THEN LET lib == LibraryJson(entry.data)
          IN Mem(s, get_lock([r EXCEPT !.libraries = Put(@, lib.id, lib)], lib.id, live))
     ELSE IF op = "library.update"
     THEN IF entry.id \notin DOMAIN r.libraries THEN Raise(s, "key_error")
          ELSE Mem(s, [r EXCEPT !.libraries[entry.id] =
                                   LibraryJson(Patched(r.libraries[entry.id], entry.data))])
     ELSE IF op = "library.delete"
     THEN Mem(s, [r EXCEPT !.libraries = Pop(@, entry.id),
                           !.by_library_docs = Pop(@, entry.id),
                           !.locks = Pop(@, entry.id)])
     ELSE IF op = "document.create"
     THEN LET doc == DocumentJson(entry.data)
          IN Mem(s, [r EXCEPT !.documents = Put(@, doc.id, doc),
                              !.by_library_docs = SetAdd(@, doc.library_id, doc.id)])
     ELSE IF op = "document.update"
     THEN IF entry.id \notin DOMAIN r.documents THEN Raise(s, "key_error")
          ELSE Mem(s, [r EXCEPT !.documents[entry.id] =
                                   DocumentJson(Patched(r.documents[entry.id], entry.data))])
     ELSE IF op = "document.delete"
     THEN Mem(s, [r EXCEPT !.documents = Pop(@, entry.id),
                           !.by_document_chunks = Pop(@, entry.id)])
     ELSE IF op = "chunk.create"
     THEN LET chk == ChunkJson(entry.data)
          IN Mem(s, [r EXCEPT !.chunks = Put(@, chk.id, chk),
                              !.by_document_chunks = SetAdd(@, chk.document_id, chk.id)])
     ELSE IF op = "chunk.update"
     THEN IF entry.id \notin DOMAIN r.chunks THEN Raise(s, "key_error")
          ELSE Mem(s, [r EXCEPT !.chunks[entry.id] =
                                   ChunkJson(Patched(r.chunks[entry.id], entry.data))])
     ELSE IF op = "chunk.delete"
     THEN IF entry.id \in DOMAIN r.chunks
          THEN Mem(s, [r EXCEPT !.chunks = Pop(@, entry.id),
                                !.by_document_chunks =
                                   SetDiscard(@, r.chunks[entry.id].document_id, entry.id)])
          ELSE s
     ELSE IF op = "library.index_state"
     THEN IF entry.library_id \notin DOMAIN r.libraries THEN Raise(s, "key_error")
          ELSE Raise(Mem(s, [r EXCEPT !.libraries[entry.library_id].index_state =
                                          entry.index_state]), "attr_error")
     ELSE s

RECURSIVE Replay(_, _, _)
Replay(s, entries, live) ==
  IF entries = <<>> THEN s
  ELSE Replay(apply_wal_entry(s, Head(entries), live), Tail(entries), live)

(* ------------------------------- DiskStore ---------------------------- *)
NoSnapshot == [schema_version |-> 0, libraries |-> EmptyMap, documents |-> EmptyMap,
               chunks |-> EmptyMap]

DiskStore == [snapshot |-> NoSnapshot, wal |-> <<>>, tmp |-> "absent"]

\* a WAL line json.loads rejects: what is left of a line whose write was cut short
Unparsable == [op |-> "unparsable"]

\* DiskStore.load: every non-empty WAL line goes through json.loads, and a
\* JSONDecodeError is not caught
DiskStore_load(d) ==
  IF \E i \in DOMAIN d.wal : d.wal[i] = Unparsable THEN "json_error" ELSE "ok"

\* bootstrap_from_disk in a new process: hydrate the snapshot if there is one,
\* replay the WAL in file order, then restore_all_indices
bootstrap_from_disk(d) ==
  LET r0 == IF d.snapshot.schema_version # 0 THEN hydrate(d.snapshot, {}) ELSE InMemoryRepo
      s1 == Replay(Run(r0, d.wal), d.wal, {})
  IN IF DiskStore_load(d) # "ok" THEN Raise(Run(InMemoryRepo, d.wal), DiskStore_load(d))
     ELSE IF s1.status # "ok" THEN s1 ELSE Raise(s1, restore_all_indices(s1.repo))

(* ================================ state =============================== *)
VARIABLES
  repo,          \* the InMemoryRepo singleton
  disk,          \* the DiskStore files: snapshot, WAL, snapshot temp file
  flat_indices,  \* IndexingService.flat_indices
  rp_indices,    \* IndexingService.rp_indices
  next_id,       \* the next unused library / document / chunk id
  snap,          \* the admin snapshot handler: position, image, files at entry
  last,          \* the call that returned last and its outcome
  n_snap,        \* snapshots written so far
  n_fault,       \* append_wal calls that have raised so far
  th,            \* per thread: the handler it runs, its position and its locals
  rw,            \* the RWLock objects, by identity
  lazy_flat,     \* SearchService._lazy_flat of the last request's service object
  libraries_repo, \* api/libraries.py repo_singleton, the InMemoryRepo of the CRUD routers
  wf             \* a QueryWorkflow instance: its fields and what run has passed on

vars == <<repo, disk, flat_indices, rp_indices, next_id, snap, last, n_snap, n_fault, th, rw, lazy_flat, libraries_repo, wf>>

(* ------------------------------- RWLock ------------------------------ *)
\* RWLock.__init__: _lock (an RLock) is free, owner 0 and recursion depth 0, and there
\* are no readers.  The threads waiting on _cond are those whose position is
\* "cond_wait".
RWLock == [owner |-> 0, depth |-> 0, readers |-> 0]

Threads == 1..MaxThreads

\* the threads that run request handlers
Workers == 1..MaxWorkers

\* more lock objects than can be referred to at once
LockIds == 1..(MaxLibs + MaxThreads + 1)

IdleThread ==
  [pc |-> "idle", op |-> "none", mode |-> "none", lk |-> 0, lib |-> 0, doc |-> 0,
   arg |-> 0, ce |-> FALSE, cids |-> <<>>, pending |-> <<>>, ahead |-> {}, saved |-> 0,
   idx |-> [metric |-> "none", ids |-> <<>>]]

\* lock objects some thread still holds a reference to
LiveLocks == {th[t].lk : t \in Threads} \ {0}

\* RWLock.acquire_read, under _lock: _readers += 1
acquire_read(l) == [l EXCEPT !.readers = @ + 1]

\* RWLock.release_read, under _lock: _readers -= 1
release_read(l) == [l EXCEPT !.readers = @ - 1]

\* _lock.acquire() by thread t, which finds _lock free or is its owner (RLock)
rlock_acquire(l, t) == [l EXCEPT !.owner = t, !.depth = @ + 1]

\* _lock.release() dropping the ownership on the first call, as a plain Lock does
rlock_release_Plain(l) == [l EXCEPT !.owner = 0, !.depth = 0]

\* _lock.release() by the owner: one level less, free at level 0
rlock_release(l) ==
  IF l.depth > 1 THEN [l EXCEPT !.depth = @ - 1] ELSE [l EXCEPT !.owner = 0, !.depth = 0]

\* RWLock.acquire_write with _lock held: `while self._readers > 0: self._cond.wait()`,
\* the position the writer goes to
acquire_write_noloop(l) == "locked"

acquire_write_loop(l) == IF l.readers > 0 THEN "cond_wait" ELSE "locked"

Faults == 0..MaxFail
NoFault == {0}
QueryEmbeddings == {[i \in 1..d |-> 1] : d \in 1..MaxQDim}

\* what is kept of the last call: its outcome, and for the cascading deletes, the
\* bootstrap, the snapshot and the search also which call it was
Traced == {"init", "library.delete", "document.delete", "bootstrap", "snapshot", "search"}

Outcome(op, status, lib, doc, chunk) ==
  IF op \in Traced
  THEN [op |-> op, status |-> status, lib |-> lib, doc |-> doc, hits |-> <<>>]
  ELSE [op |-> "call", status |-> status, lib |-> 0, doc |-> 0, hits |-> <<>>]

SnapIdle == [pc |-> "idle", image |-> NoSnapshot, old_snapshot |-> NoSnapshot, old_wal |-> <<>>]

\* QueryWorkflow.__init__: _stage, _filters and _partial; with them the payload run was
\* started with, the WFPreprocessed request it holds (pre), the request it has passed
\* to the retrieve activity, and whether the workflow has ended
QueryWorkflow ==
  [_stage |-> "init", _filters |-> NoFilters, _partial |-> FALSE, payload |-> NoFilters,
   pre |-> NoFilters, retrieve |-> [sent |-> FALSE, filters |-> NoFilters],
   closed |-> FALSE]

Init ==
  /\ repo = InMemoryRepo
  /\ disk = DiskStore
  /\ flat_indices = EmptyMap
  /\ rp_indices = EmptyMap
  /\ next_id = [lib |-> 1, doc |-> 1, chunk |-> 1]
  /\ snap = SnapIdle
  /\ last = Outcome("init", "ok", 0, 0, 0)
  /\ n_snap = 0
  /\ n_fault = 0
  /\ th = [t \in Threads |-> IdleThread]
  /\ rw = [i \in LockIds |-> RWLock]
  /\ lazy_flat = EmptyMap
  /\ libraries_repo = InMemoryRepo
  /\ wf = QueryWorkflow

\* the process is serving and no snapshot call is under way; a bootstrap that raised
\* (startup hook failed) leaves a process that serves nothing
Serving == ~(last.op = "bootstrap" /\ last.status # "ok")

\* a search response that has not been sent yet
ResponsePending == "req" \in DOMAIN last

\* one caller at a time: the next request starts when the previous one has returned
Ready == Serving /\ snap.pc = "idle" /\ ~ResponsePending

\* a handler run s becomes the new repository and WAL; fail names an append that failed
Commit(s, fail) ==
  /\ (fail # 0) => (s.status = "io_error" /\ n_fault < MaxFaults)
  /\ n_fault' = IF fail # 0 THEN n_fault + 1 ELSE n_fault
  /\ Len(s.wal) <= MaxWal
  /\ repo' = s.repo
  /\ disk' = [disk EXCEPT !.wal = s.wal]

\* ids a caller can name: those handed out so far (uuid4 never hands out an id a
\* caller has already used), and the library id that is never handed out
KnownLibs == {i \in LibIds : i < next_id.lib \/ i > MaxLibs}

KnownDocs == {i \in DocIds : i < next_id.doc}

KnownChunks == {i \in ChunkIds : i < next_id.chunk}

(* ------------------------ handlers, one caller ------------------------ *)
LibCreate(F) ==
  \E name \in Names, fail \in F :
    LET s == LibraryService_create(repo, disk.wal, next_id.lib, name, fail, LiveLocks)
    IN /\ Ready
       /\ next_id.lib <= MaxLibs
       /\ Commit(s, fail)
       /\ next_id' = [next_id EXCEPT !.lib = @ + 1]
       /\ last' = Outcome("library.create", s.status, next_id.lib, 0, 0)
       /\ UNCHANGED <<flat_indices, rp_indices, snap, n_snap, th, rw, lazy_flat, libraries_repo, wf>>

LibUpdate(F) ==
  \E lib_id \in KnownLibs, name \in Names \cup {NoText}, fail \in F :
    LET s == LibraryService_update(repo, disk.wal, lib_id, name, fail)
    IN /\ Ready
       /\ Commit(s, fail)
       /\ last' = Outcome("library.update", s.status, lib_id, 0, 0)
       /\ UNCHANGED <<flat_indices, rp_indices, snap, next_id, n_snap, th, rw, lazy_flat, libraries_repo, wf>>

LibDelete(F) ==
  \E lib_id \in KnownLibs, fail \in F :
    LET s == LibraryService_delete(repo, disk.wal, lib_id, fail)
    IN /\ Ready
       /\ Commit(s, fail)
       /\ last' = Outcome("library.delete", s.status, lib_id, 0, 0)
       /\ UNCHANGED <<flat_indices, rp_indices, snap, next_id, n_snap, th, rw, lazy_flat, libraries_repo, wf>>

DocCreate(F) ==
  \E lib_id \in KnownLibs, title \in Titles, fail \in F :
    LET s == DocumentService_create(repo, disk.wal, next_id.doc, lib_id, title, fail)
    IN /\ Ready
       /\ next_id.doc <= MaxDocs
       /\ Commit(s, fail)
       /\ next_id' = [next_id EXCEPT !.doc = @ + 1]
       /\ last' = Outcome("document.create", s.status, lib_id, next_id.doc, 0)
       /\ UNCHANGED <<flat_indices, rp_indices, snap, n_snap, th, rw, lazy_flat, libraries_repo, wf>>

DocUpdate(F) ==
  \E doc_id \in KnownDocs, title \in Titles \cup {NoText}, fail \in F :
    LET s == DocumentService_update(repo, disk.wal, doc_id, title, fail)
    IN /\ Ready
       /\ Commit(s, fail)
       /\ last' = Outcome("document.update", s.status, 0, doc_id, 0)
       /\ UNCHANGED <<flat_indices, rp_indices, snap, next_id, n_snap, th, rw, lazy_flat, libraries_repo, wf>>

DocDelete(F) ==
  \E lib_id \in KnownLibs, doc_id \in KnownDocs, fail \in F :
    LET s == DocumentService_delete(repo, disk.wal, lib_id, doc_id, fail)
    IN /\ Ready
       /\ Commit(s, fail)
       /\ last' = Outcome("document.delete", s.status, lib_id, doc_id, 0)
       /\ UNCHANGED <<flat_indices, rp_indices, snap, next_id, n_snap, th, rw, lazy_flat, libraries_repo, wf>>

ChunkCreate(F) ==
  \E lib_id \in KnownLibs, doc_id \in KnownDocs, text \in Texts, ce \in BOOLEAN, fail \in F :
    LET s == ChunkService_create(repo, disk.wal, next_id.chunk, lib_id, doc_id, text, ce, fail, LiveLocks)
        stored == next_id.chunk \in DOMAIN s.repo.chunks
    IN /\ Ready
       /\ stored => next_id.chunk <= MaxChunks
       /\ Commit(s, fail)
       /\ next_id' = IF stored THEN [next_id EXCEPT !.chunk = @ + 1] ELSE next_id
       /\ last' = [op |-> "chunk.create", status |-> s.status, lib |-> lib_id, doc |-> doc_id,
                   hits |-> <<>>, chunk |-> next_id.chunk]
       /\ UNCHANGED <<flat_indices, rp_indices, snap, n_snap, th, rw, lazy_flat, libraries_repo, wf>>

ChunkUpdate(F) ==
  \E chunk_id \in KnownChunks, text \in NewTexts \cup {NoText}, fail \in F :
    LET s == ChunkService_update(repo, disk.wal, chunk_id, text, fail, LiveLocks)
    IN /\ Ready
       /\ Commit(s, fail)
       /\ last' = [op |-> "chunk.update", status |-> s.status, lib |-> 0, doc |-> 0,
                   hits |-> <<>>, chunk |-> chunk_id, text |-> text]
       /\ UNCHANGED <<flat_indices, rp_indices, snap, next_id, n_snap, th, rw, lazy_flat, libraries_repo, wf>>

ChunkDelete(F) ==
  \E doc_id \in KnownDocs, chunk_id \in KnownChunks, fail \in F :
    LET s == ChunkService_delete(repo, disk.wal, doc_id, chunk_id, fail, LiveLocks)
    IN /\ Ready
       /\ Commit(s, fail)
       /\ last' = [op |-> "chunk.delete", status |-> s.status, lib |-> 0, doc |-> doc_id,
                   hits |-> <<>>, chunk |-> chunk_id]
       /\ UNCHANGED <<flat_indices, rp_indices, snap, next_id, n_snap, th, rw, lazy_flat, libraries_repo, wf>>

\* POST /index/build: build with the defaults persist=True, update_state=True
IndexBuild ==
  \E lib_id \in KnownLibs, algo \in Algos, metric \in Metrics :
    LET b == IndexingService_build(flat_indices, rp_indices, repo, lib_id, algo, metric,
                                   DefaultParams, TRUE, LiveLocks)
    IN /\ Ready
       /\ repo' = b.repo
       /\ flat_indices' = b.flat
       /\ rp_indices' = b.rp
       /\ last' = [op |-> "index.build", status |-> b.status, lib |-> lib_id, doc |-> 0,
                   hits |-> <<>>, algo |-> algo]
       /\ UNCHANGED <<disk, snap, next_id, n_snap, n_fault, th, rw, lazy_flat, libraries_repo, wf>>

\* POST /search: get_search_service constructs a SearchService for the request, so
\* its _lazy_flat starts empty
Search ==
  \E lib_id \in KnownLibs, query_text \in Texts \cup {NoText},
     query_embedding \in QueryEmbeddings \cup {NoEmb}, k \in 1..MaxK,
     algo \in Algos \cup {"auto"}, metric \in Metrics :
   \E order \in Orders(SearchCandidates(rp_indices, lib_id)) :
    LET res == SearchService_search(flat_indices, rp_indices, EmptyMap, repo, lib_id,
                 SearchRequest(query_text, query_embedding, k, algo, metric, NoFilters),
                 LiveLocks, order)
    IN /\ Ready
       /\ repo' = res.repo
       /\ lazy_flat' = res.lazy
       /\ UNCHANGED <<libraries_repo, wf>>
       /\ last' = [op |-> "search", status |-> res.status, lib |-> lib_id, doc |-> 0,
                   hits |-> res.hits, detail |-> res.detail,
                   query_embedding |-> query_embedding]
       /\ UNCHANGED <<disk, flat_indices, rp_indices, snap, next_id, n_snap, n_fault, th, rw>>

(* ----------------------- POST /admin/snapshot ------------------------- *)
\* DiskStore.write_snapshot, one file-system call at a time: the files after the
\* call made at position pc, and the next position
write_snapshot(d, image, pc) ==
  IF pc = "dumped" THEN [disk |-> [d EXCEPT !.tmp = "partial"], pc |-> "tmp_open"]
  ELSE IF pc = "tmp_open" THEN [disk |-> [d EXCEPT !.tmp = "full"], pc |-> "tmp_written"]
  ELSE IF pc = "tmp_written" THEN [disk |-> d, pc |-> "tmp_synced"]
  ELSE IF pc = "tmp_synced"
  THEN [disk |-> [d EXCEPT !.snapshot = image, !.tmp = "absent"], pc |-> "renamed"]
  ELSE IF pc = "renamed" THEN [disk |-> [d EXCEPT !.wal = <<>>], pc |-> "wal_truncated"]
  ELSE [disk |-> d, pc |-> "idle"]

\* force_snapshot: image = repo.dump_json()
SnapDump ==
  /\ Ready
  /\ n_snap < MaxSnapshots
  /\ n_snap' = n_snap + 1
  /\ snap' = [pc |-> "dumped", image |-> dump_json(repo),
              old_snapshot |-> disk.snapshot, old_wal |-> disk.wal]
  /\ UNCHANGED <<repo, disk, flat_indices, rp_indices, next_id, last, n_fault, th, rw, lazy_flat, libraries_repo, wf>>

SnapStep(pc) ==
  /\ Serving
  /\ snap.pc = pc
  /\ disk' = write_snapshot(disk, snap.image, pc).disk
  /\ snap' = [snap EXCEPT !.pc = write_snapshot(disk, snap.image, pc).pc]
  /\ UNCHANGED <<repo, flat_indices, rp_indices, next_id, last, n_snap, n_fault, th, rw, lazy_flat, libraries_repo, wf>>

\* open(tmp, "w")
SnapOpenTmp == SnapStep("dumped")

\* f.write(data)
SnapWriteTmp == SnapStep("tmp_open")

\* flush and fsync of the temp file
SnapFsyncTmp == SnapStep("tmp_written")

\* os.replace(tmp, snapshot_path)
SnapRename == SnapStep("tmp_synced")

\* open(wal_path, "w"): the WAL is cut to zero length
SnapTruncateWal == SnapStep("renamed")

\* fsync of the WAL, then the handler returns
SnapReturn ==
  /\ Serving
  /\ snap.pc = "wal_truncated"
  /\ snap' = SnapIdle
  /\ last' = Outcome("snapshot", "ok", 0, 0, 0)
  /\ UNCHANGED <<repo, disk, flat_indices, rp_indices, next_id, n_snap, n_fault, th, rw, lazy_flat, libraries_repo, wf>>

(* ------------------------------- restart ------------------------------ *)
\* The process stops (when crash is TRUE: at any point, also inside write_snapshot)
\* and a new one runs bootstrap_from_disk on the files it finds.
Restart(crash) ==
  LET b == bootstrap_from_disk(disk)
  IN /\ crash \/ snap.pc = "idle"
     /\ repo' = b.repo
     /\ flat_indices' = EmptyMap
     /\ rp_indices' = EmptyMap
     /\ lazy_flat' = EmptyMap
     /\ libraries_repo' = InMemoryRepo
     /\ UNCHANGED wf
     /\ snap' = SnapIdle
     /\ last' = Outcome("bootstrap", b.status, 0, 0, 0)
     /\ UNCHANGED <<disk, next_id, n_snap, n_fault, th, rw>>

\* force_snapshot run to completion without interruption
ForceSnapshot ==
  /\ Ready
  /\ n_snap < MaxSnapshots
  /\ n_snap' = n_snap + 1
  /\ disk' = [disk EXCEPT !.snapshot = dump_json(repo), !.wal = <<>>]
  /\ last' = Outcome("snapshot", "ok", 0, 0, 0)
  /\ UNCHANGED <<repo, flat_indices, rp_indices, next_id, snap, n_fault, th, rw, lazy_flat, libraries_repo, wf>>

Snapshot ==
  \/ SnapDump
  \/ SnapOpenTmp
  \/ SnapWriteTmp
  \/ SnapFsyncTmp
  \/ SnapRename
  \/ SnapTruncateWal
  \/ SnapReturn

(* One caller at a time on a healthy disk: index builds and searches over chunk writes *)
NextIndex ==
  \/ LibCreate(NoFault)
  \/ DocCreate(NoFault)
  \/ ChunkCreate(NoFault)
  \/ IndexBuild
  \/ Search

SpecIndex == Init /\ [][NextIndex]_vars

(* --------------- searches with filters over a stored library ---------- *)
\* texts whose stub embeddings differ pairwise
SearchTexts == 1..EmbedDim

\* ChunkService.create called once per text, the chunks spread over documents 1 and 2
RECURSIVE AddChunks(_, _, _)
AddChunks(s, texts, i) ==
  IF i > Len(texts) THEN s
  ELSE AddChunks(ChunkService_create(s.repo, s.wal, i, 1, ((i - 1) % 2) + 1, texts[i],
                                     TRUE, 0, {}),
                 texts, i + 1)

\* the handler run that creates library 1 (name 1), documents 1 and 2 (titles 1 and 2)
\* and one embedded chunk per text, from an empty repository
Populated(texts) ==
  LET s1 == LibraryService_create(InMemoryRepo, <<>>, 1, 1, 0, {})
      s2 == DocumentService_create(s1.repo, s1.wal, 1, 1, 1, 0)
      s3 == DocumentService_create(s2.repo, s2.wal, 2, 1, 2, 0)
  IN AddChunks(s3, texts, 1)

InitSearch ==
  \E n \in 1..MaxIndexed :
    \E texts \in [1..n -> SearchTexts] :
      /\ repo = Populated(texts).repo
      /\ disk = [DiskStore EXCEPT !.wal = Populated(texts).wal]
      /\ flat_indices = EmptyMap
      /\ rp_indices = EmptyMap
      /\ next_id = [lib |-> 2, doc |-> 3, chunk |-> n + 1]
      /\ snap = SnapIdle
      /\ last = Outcome("init", "ok", 0, 0, 0)
      /\ n_snap = 0
      /\ n_fault = 0
      /\ th = [t \in Threads |-> IdleThread]
      /\ rw = [i \in LockIds |-> RWLock]
      /\ lazy_flat = EmptyMap
      /\ libraries_repo = InMemoryRepo
      /\ wf = QueryWorkflow

\* FilterSpec values: each sub-filter is None or one condition on a field of the entity
FilterSpecs ==
  [chunk : {NoSpec, [field |-> "text", op |-> "eq", arg |-> 1]},
   document : {NoSpec, [field |-> "title", op |-> "neq", arg |-> 1]},
   library : {NoSpec, [field |-> "name", op |-> "eq", arg |-> 2]}]

\* POST /search with filters present, on an existing library; the request is kept
\* with the hits until the response is sent
SearchFiltered ==
  \E lib_id \in DOMAIN repo.libraries, query_text \in SearchTexts, k \in 1..MaxK,
     algo \in Algos \cup {"auto"}, metric \in Metrics, filters \in FilterSpecs :
   \E order \in Orders(IF algo = "flat" THEN {} ELSE SearchCandidates(rp_indices, lib_id)) :
    LET req == SearchRequest(query_text, NoEmb, k, algo, metric, filters)
        res == SearchService_search(flat_indices, rp_indices, EmptyMap, repo, lib_id, req,
                                    LiveLocks, order)
    IN /\ Ready
       /\ repo' = res.repo
       /\ lazy_flat' = res.lazy
       /\ UNCHANGED <<libraries_repo, wf>>
       /\ last' = [op |-> "search", status |-> res.status, lib |-> lib_id, doc |-> 0,
                   hits |-> res.hits, req |-> req]
       /\ UNCHANGED <<disk, flat_indices, rp_indices, snap, next_id, n_snap, n_fault, th, rw>>

\* the search handler returns: the hits go to the client and the request's
\* SearchService object, with its _lazy_flat, is dropped
SearchRespond ==
  /\ ResponsePending
  /\ last' = Outcome("search", last.status, last.lib, 0, 0)
  /\ lazy_flat' = EmptyMap
  /\ UNCHANGED <<libraries_repo, wf>>
  /\ UNCHANGED <<repo, disk, flat_indices, rp_indices, snap, next_id, n_snap, n_fault, th, rw>>

NextSearch ==
  \/ IndexBuild
  \/ SearchFiltered
  \/ SearchRespond

SpecSearch == InitSearch /\ [][NextSearch]_vars

(* One caller at a time, mutations only, a healthy disk, restarts between calls *)
NextMut ==
  \/ LibCreate(NoFault)
  \/ LibUpdate(NoFault)
  \/ LibDelete(NoFault)
  \/ DocCreate(NoFault)
  \/ DocUpdate(NoFault)
  \/ DocDelete(NoFault)
  \/ ChunkCreate(NoFault)
  \/ ChunkUpdate(NoFault)
  \/ ChunkDelete(NoFault)
  \/ ForceSnapshot
  \/ Restart(FALSE)

SpecMut == Init /\ [][NextMut]_vars

(* One caller at a time, mutations only, any append_wal call may raise OSError *)
NextFault ==
  \/ LibCreate(Faults)
  \/ LibUpdate(Faults)
  \/ LibDelete(Faults)
  \/ DocCreate(Faults)
  \/ DocUpdate(Faults)
  \/ DocDelete(Faults)
  \/ ChunkCreate(Faults)
  \/ ChunkUpdate(Faults)
  \/ ChunkDelete(Faults)

SpecFault == Init /\ [][NextFault]_vars

(* One caller at a time: chunk writes and searches on a healthy disk, with snapshots
   and restarts between calls *)
NextDim ==
  \/ LibCreate(NoFault)
  \/ DocCreate(NoFault)
  \/ ChunkCreate(NoFault)
  \/ ChunkUpdate(NoFault)
  \/ Search
  \/ ForceSnapshot
  \/ Restart(FALSE)

SpecDim == Init /\ [][NextDim]_vars

(* One caller at a time on a healthy disk; the snapshot handler runs one file-system
   call at a time and the process may be killed at any point *)
NextSnap ==
  \/ LibCreate(NoFault)
  \/ LibUpdate(NoFault)
  \/ LibDelete(NoFault)
  \/ DocCreate(NoFault)
  \/ DocUpdate(NoFault)
  \/ DocDelete(NoFault)
  \/ ChunkCreate(NoFault)
  \/ ChunkUpdate(NoFault)
  \/ ChunkDelete(NoFault)
  \/ Snapshot
  \/ Restart(TRUE)

SpecSnap == Init /\ [][NextSnap]_vars

(* ============================ threads ================================= *)
SeqVars == <<flat_indices, rp_indices, snap, n_snap, n_fault, lazy_flat, libraries_repo, wf>>

\* thread t returns from its handler
Done(t) == [th EXCEPT ![t] = IdleThread]

Goto(t, pc) == [th EXCEPT ![t].pc = pc]

(* ---- RWLock, one step per acquisition of _lock ---- *)
\* acquire_read that lets in one reader at a time
AcquireRead_Exclusive(t) ==
  /\ th[t].pc = "acquire_read"
  /\ rw[th[t].lk].owner \in {0, t}
  /\ rw[th[t].lk].readers = 0
  /\ rw' = [rw EXCEPT ![th[t].lk] = acquire_read(@)]
  /\ th' = Goto(t, "locked")
  /\ UNCHANGED <<repo, disk, next_id, last, SeqVars>>

\* acquire_read: `with self._lock: self._readers += 1`
AcquireRead(t) ==
  /\ th[t].pc = "acquire_read"
  /\ rw[th[t].lk].owner \in {0, t}
  /\ rw' = [rw EXCEPT ![th[t].lk] = acquire_read(@)]
  /\ th' = Goto(t, "locked")
  /\ UNCHANGED <<repo, disk, next_id, last, SeqVars>>

\* release_read: `with self._lock:` decrement, and notify_all when no reader is left
ReleaseRead(t) ==
  LET l == release_read(rw[th[t].lk])
  IN /\ th[t].pc = "release_read"
     /\ rw[th[t].lk].owner \in {0, t}
     /\ rw' = [rw EXCEPT ![th[t].lk] = l]
     /\ th' = [u \in Threads |->
                IF u = t THEN IdleThread
                ELSE IF l.readers = 0 /\ th[u].pc = "cond_wait" /\ th[u].lk = th[t].lk
                THEN [th[u] EXCEPT !.pc = "cond_notified"]
                ELSE th[u]]
     /\ UNCHANGED <<repo, disk, next_id, last, SeqVars>>

\* acquire_write: `self._lock.acquire()`
AcquireWriteLock(t) ==
  /\ th[t].pc = "acquire_write"
  /\ rw[th[t].lk].owner \in {0, t}
  /\ rw' = [rw EXCEPT ![th[t].lk] = rlock_acquire(@, t)]
  /\ th' = Goto(t, "aw_loop")
  /\ UNCHANGED <<repo, disk, next_id, last, SeqVars>>

\* acquire_write: the loop test; _cond.wait() gives up every level of _lock, keeps the
\* depth to restore, and blocks
AcquireWriteLoop(t) ==
  LET to == acquire_write_loop(rw[th[t].lk])
  IN /\ th[t].pc = "aw_loop"
     /\ rw' = IF to = "cond_wait" THEN [rw EXCEPT ![th[t].lk].owner = 0, ![th[t].lk].depth = 0]
              ELSE rw
     /\ th' = [th EXCEPT ![t].pc = to,
                         ![t].saved = IF to = "cond_wait" THEN rw[th[t].lk].depth ELSE @]
     /\ UNCHANGED <<repo, disk, next_id, last, SeqVars>>

\* _cond.wait() returns: the notified thread takes _lock again and tests the loop again
CondWake(t) ==
  /\ th[t].pc = "cond_notified"
  /\ rw[th[t].lk].owner = 0
  /\ rw' = [rw EXCEPT ![th[t].lk].owner = t, ![th[t].lk].depth = th[t].saved]
  /\ th' = [th EXCEPT ![t].pc = "aw_loop", ![t].saved = 0]
  /\ UNCHANGED <<repo, disk, next_id, last, SeqVars>>

\* release_write: `self._lock.release()`
ReleaseWrite(t) ==
  /\ th[t].pc = "release_write"
  /\ rw' = [rw EXCEPT ![th[t].lk] = rlock_release(@)]
  /\ th' = Done(t)
  /\ UNCHANGED <<repo, disk, next_id, last, SeqVars>>

(* ---- threads that only take and give back one RWLock ---- *)
LockBegin(t) ==
  \E mode \in {"read", "write"} :
    /\ th[t].pc = "idle"
    /\ th' = [th EXCEPT ![t] = [IdleThread EXCEPT !.op = "lock", !.mode = mode, !.lk = 1,
                                   !.pc = IF mode = "read" THEN "acquire_read"
                                          ELSE "acquire_write"]]
    /\ UNCHANGED <<repo, disk, next_id, last, rw, SeqVars>>

LockEnd(t) ==
  /\ th[t].op = "lock"
  /\ th[t].pc = "locked"
  /\ th' = Goto(t, IF th[t].mode = "read" THEN "release_read" ELSE "release_write")
  /\ UNCHANGED <<repo, disk, next_id, last, rw, SeqVars>>

NextLock ==
  \E t \in Threads :
    \/ LockBegin(t)
    \/ LockEnd(t)
    \/ AcquireRead(t)
    \/ ReleaseRead(t)
    \/ AcquireWriteLock(t)
    \/ AcquireWriteLoop(t)
    \/ CondWake(t)
    \/ ReleaseWrite(t)

SpecLock == Init /\ [][NextLock]_vars

(* ---- request handlers run by concurrent threads ---- *)
\* Each action is a run of consecutive statements of one handler; between two actions
\* of a thread any other thread may run.  Handlers that finish in one action are the
\* atomic actions above.

\* threads that have changed library lib_id in memory and not yet logged it
Unlogged(lib_id) == {u \in Threads : th[u].pc = "wal" /\ th[u].lib = lib_id}

\* LibraryService.update up to the in-memory change (no lock is taken)
LibUpdateMem(t) ==
  \E lib_id \in KnownLibs, name \in Names :
    LET s == LibraryService_update(repo, <<>>, lib_id, name, 0)
    IN /\ th[t].pc = "idle"
       /\ s.wal # <<>>
       /\ repo' = s.repo
       /\ th' = [th EXCEPT ![t] = [IdleThread EXCEPT !.op = "library.update", !.pc = "wal",
                                      !.lib = lib_id, !.pending = s.wal,
                                      !.ahead = Unlogged(lib_id)]]
       /\ UNCHANGED <<disk, next_id, last, rw, SeqVars>>

\* store.append_wal of the entry a handler has already applied in memory
WalAppend(t) ==
  /\ th[t].pc = "wal"
  /\ Len(disk.wal) + Len(th[t].pending) <= MaxWal
  /\ disk' = [disk EXCEPT !.wal = @ \o th[t].pending]
  /\ th' = [u \in Threads |->
             IF u # t THEN [th[u] EXCEPT !.ahead = @ \ {t}]
             ELSE IF th[t].mode = "write"
             THEN [th[t] EXCEPT !.pc = "release_write", !.pending = <<>>, !.ahead = {}]
             ELSE IdleThread]
  /\ UNCHANGED <<repo, next_id, last, rw, SeqVars>>

\* DocumentService.delete: chunk_ids = list(by_document_chunks.get(doc_id, []))
DocDeleteCollect(t) ==
  \E lib_id \in KnownLibs, doc_id \in KnownDocs :
    /\ th[t].pc = "idle"
    /\ th' = [th EXCEPT ![t] = [IdleThread EXCEPT !.op = "document.delete", !.pc = "dd_rest",
                                   !.lib = lib_id, !.doc = doc_id,
                                   !.cids = ListOf(Get(repo.by_document_chunks, doc_id, {}))]]
    /\ UNCHANGED <<repo, disk, next_id, last, rw, SeqVars>>

\* DocumentService.delete: the cascade over the collected chunks, then the document
DocDeleteRest(t) ==
  LET s == DocDeleteFrom(repo, disk.wal, th[t].lib, th[t].doc, th[t].cids, 0)
  IN /\ th[t].pc = "dd_rest"
     /\ Len(s.wal) <= MaxWal
     /\ repo' = s.repo
     /\ disk' = [disk EXCEPT !.wal = s.wal]
     /\ th' = Done(t)
     /\ last' = Outcome("document.delete", s.status, th[t].lib, th[t].doc, 0)
     /\ UNCHANGED <<next_id, rw, SeqVars>>

\* ChunkService.create: the existence checks, then get_lock, all before the lock is taken
ChunkCreateCheck(t) ==
  \E lib_id \in KnownLibs, doc_id \in KnownDocs, text \in Texts, ce \in BOOLEAN :
    LET r0 == get_lock(repo, lib_id, LiveLocks)
    IN /\ th[t].pc = "idle"
       /\ lib_id \in DOMAIN repo.libraries
       /\ doc_id \in DOMAIN repo.documents
       /\ repo.documents[doc_id].library_id = lib_id
       /\ repo' = r0
       /\ th' = [th EXCEPT ![t] = [IdleThread EXCEPT !.op = "chunk.create", !.mode = "write",
                                      !.pc = "acquire_write", !.lk = r0.locks[lib_id],
                                      !.lib = lib_id, !.doc = doc_id, !.arg = text, !.ce = ce]]
       /\ UNCHANGED <<disk, next_id, last, rw, SeqVars>>

\* ChunkService.create under the write lock, up to the in-memory change
ChunkCreateMem(t) ==
  LET id == next_id.chunk
      m == ChunkCreateLocked(repo, id, th[t].lib, th[t].doc, th[t].arg, th[t].ce)
      stored == id \in DOMAIN m.repo.chunks
  IN /\ th[t].op = "chunk.create"
     /\ th[t].pc = "locked"
     /\ id <= MaxChunks
     /\ repo' = m.repo
     /\ next_id' = IF stored THEN [next_id EXCEPT !.chunk = @ + 1] ELSE next_id
     /\ th' = IF m.status = "ok"
              THEN [th EXCEPT ![t].pc = "wal",
                              ![t].pending = <<[op |-> "chunk.create", data |-> ChunkJson(m.chunk)]>>,
                              ![t].ahead = Unlogged(th[t].lib)]
              ELSE Goto(t, "release_write")
     /\ UNCHANGED <<disk, last, rw, SeqVars>>

\* SearchService.search: the library check and get_lock
SearchEnter(t) ==
  \E lib_id \in KnownLibs, query_text \in Texts :
    LET r0 == get_lock(repo, lib_id, LiveLocks)
    IN /\ th[t].pc = "idle"
       /\ lib_id \in DOMAIN repo.libraries
       /\ repo' = r0
       /\ th' = [th EXCEPT ![t] = [IdleThread EXCEPT !.op = "search", !.mode = "read",
                                      !.pc = "acquire_read", !.lk = r0.locks[lib_id],
                                      !.lib = lib_id, !.arg = query_text]]
       /\ UNCHANGED <<disk, next_id, last, rw, SeqVars>>

\* SearchService.search under the read lock (algo "auto", metric "cosine", k = 1)
SearchQuery(t) ==
  \E order \in Orders(SearchCandidates(rp_indices, th[t].lib)) :
  LET res == SearchLocked(flat_indices, rp_indices, EmptyMap, repo, th[t].lib,
                          SearchRequest(th[t].arg, NoEmb, 1, "auto", "cosine", NoFilters),
                          order)
  IN /\ th[t].op = "search"
     /\ th[t].pc = "locked"
     /\ repo' = res.repo
     /\ lazy_flat' = res.lazy
     /\ UNCHANGED <<libraries_repo, wf>>
     /\ th' = Goto(t, "release_read")
     /\ last' = [Outcome("search", res.status, th[t].lib, 0, 0) EXCEPT !.hits = res.hits]
     /\ UNCHANGED <<disk, next_id, rw, flat_indices, rp_indices, snap, n_snap, n_fault>>

(* Handlers on concurrent threads, a healthy disk *)
NextConc ==
  \/ LibCreate(NoFault)
  \/ DocCreate(NoFault)
  \/ LibDelete(NoFault)
  \/ \E t \in Workers :
       \/ LibUpdateMem(t)
       \/ WalAppend(t)
       \/ DocDeleteCollect(t)
       \/ DocDeleteRest(t)
       \/ ChunkCreateCheck(t)
       \/ ChunkCreateMem(t)
       \/ SearchEnter(t)
       \/ SearchQuery(t)
       \/ AcquireRead(t)
       \/ ReleaseRead(t)
       \/ AcquireWriteLock(t)
       \/ AcquireWriteLoop(t)
       \/ CondWake(t)
       \/ ReleaseWrite(t)

SpecConc == Init /\ [][NextConc]_vars

(* =============================== claims =============================== *)
Members(f, k) == Get(f, k, {})

\* two repositories hold the same libraries, documents, chunks and map membership
SameState(r1, r2) ==
  /\ r1.libraries = r2.libraries
  /\ r1.documents = r2.documents
  /\ r1.chunks = r2.chunks
  /\ \A l \in LibIds : Members(r1.by_library_docs, l) = Members(r2.by_library_docs, l)
  /\ \A d \in DocIds : Members(r1.by_document_chunks, d) = Members(r2.by_document_chunks, d)

\* C1 (replay equivalence): whenever the process restarts, the repository that
\* bootstrap builds from the snapshot and the WAL equals the repository the
\* mutations had built in memory.
C1_ReplayEquivalence == [][last'.op = "bootstrap" => SameState(repo', repo)]_vars

DocsOf(r, l) == {d \in DOMAIN r.documents : r.documents[d].library_id = l}

ChunksOf(r, l) == {c \in DOMAIN r.chunks : r.chunks[c].library_id = l}

ChunksIn(r, d) == {c \in DOMAIN r.chunks : r.chunks[c].document_id = d}

\* what must be gone from repository r2 once library l of repository r1 is deleted
LibraryCascaded(r1, r2, l) ==
  /\ l \notin DOMAIN r2.libraries
  /\ DocsOf(r2, l) = {}
  /\ ChunksOf(r2, l) = {}
  /\ l \notin DOMAIN r2.by_library_docs
  /\ \A k \in DOMAIN r2.by_library_docs : r2.by_library_docs[k] \cap DocsOf(r1, l) = {}
  /\ \A d \in DocsOf(r1, l) : d \notin DOMAIN r2.by_document_chunks
  /\ \A d \in DOMAIN r2.by_document_chunks : r2.by_document_chunks[d] \cap ChunksOf(r1, l) = {}

DocumentCascaded(r2, d) ==
  /\ d \notin DOMAIN r2.documents
  /\ ChunksIn(r2, d) = {}
  /\ d \notin DOMAIN r2.by_document_chunks

\* C7 (cascade delete): a library delete that returns leaves no document or chunk of
\* that library and no secondary-map entry for the library, its documents or its
\* chunks; a document delete that returns leaves no chunk of that document and no
\* by_document_chunks entry for it.
C7_CascadeDelete ==
  [][/\ (last'.op = "library.delete" /\ last'.status = "ok")
          => LibraryCascaded(repo, repo', last'.lib)
     /\ (last'.op = "document.delete" /\ last'.status = "ok")
          => DocumentCascaded(repo', last'.doc)]_vars

\* C7 witness: a library delete has just cascaded over a chunk and a document
C7_Witness ==
  /\ last.op = "library.delete"
  /\ last.status = "ok"
  /\ Len(disk.wal) >= 3
  /\ disk.wal[Len(disk.wal) - 2].op = "chunk.delete"
  /\ disk.wal[Len(disk.wal) - 1].op = "document.delete"
  /\ disk.wal[Len(disk.wal)] = [op |-> "library.delete", id |-> last.lib]

\* C8 (secondary-map consistency): by_library_docs and by_document_chunks are exactly
\* the inverse of the documents' library_id and the chunks' document_id.
C8_SecondaryMaps ==
  /\ \A l \in LibIds, d \in DocIds :
       d \in Members(repo.by_library_docs, l)
         <=> (d \in DOMAIN repo.documents /\ repo.documents[d].library_id = l)
  /\ \A d \in DocIds, c \in ChunkIds :
       c \in Members(repo.by_document_chunks, d)
         <=> (c \in DOMAIN repo.chunks /\ repo.chunks[c].document_id = d)

\* C9 (chunk referential integrity): every stored chunk's document exists and lies
\* in the chunk's library.
C9_ChunkIntegrity ==
  \A c \in DOMAIN repo.chunks :
    /\ repo.chunks[c].document_id \in DOMAIN repo.documents
    /\ repo.documents[repo.chunks[c].document_id].library_id = repo.chunks[c].library_id

\* C10 (WAL failure rolls back): a mutation whose append_wal raised leaves the
\* in-memory repository as it was before the mutation began.
C10_WalFailureRollsBack == [][last'.status = "io_error" => repo' = repo]_vars

\* every embedding stored in a library has the length the library records
EmbeddingsMatch(r) ==
  \A c \in DOMAIN r.chunks :
    (r.chunks[c].embedding # NoEmb /\ r.chunks[c].library_id \in DOMAIN r.libraries)
      => Len(r.chunks[c].embedding) = r.libraries[r.chunks[c].library_id].embedding_dim

\* C6 (dimension invariant): a library's embedding_dim, once set, never changes, and
\* every chunk embedding stored in the library has that length.
C6_DimensionInvariant ==
  [][/\ \A l \in DOMAIN repo.libraries \cap DOMAIN repo'.libraries :
          repo.libraries[l].embedding_dim # NoDim
            => repo'.libraries[l].embedding_dim = repo.libraries[l].embedding_dim
     /\ EmbeddingsMatch(repo')]_vars

\* C2 (snapshot crash atomicity): at every point inside write_snapshot, where a crash
\* may come, the files on disk are the old snapshot with the full WAL or the new
\* snapshot with an empty WAL.
C2_SnapshotCrashAtomic ==
  (snap.pc # "idle") =>
    \/ disk.snapshot = snap.old_snapshot /\ disk.wal = snap.old_wal
    \/ disk.snapshot = snap.image /\ disk.wal = <<>>

\* thread t has returned from acquire_read / acquire_write and not yet released
HoldsRead(t) == th[t].mode = "read" /\ th[t].pc \in {"locked", "release_read"}

HoldsWrite(t) == th[t].mode = "write" /\ th[t].pc \in {"locked", "wal", "release_write"}

\* C5 (RWLock mutual exclusion): while a thread holds the write side of an RWLock no
\* other thread holds its read side or its write side, and the reader count is zero.
C5_RWLockExclusion ==
  \A t \in Threads :
    HoldsWrite(t) =>
      /\ rw[th[t].lk].readers = 0
      /\ \A u \in Threads \ {t} :
           th[u].lk = th[t].lk => ~HoldsRead(u) /\ ~HoldsWrite(u)

\* C5 witness: one thread holds the write side while another is held up in acquire_read
\* on the same lock
C5_Witness ==
  \E t, u \in Threads :
    /\ HoldsWrite(t)
    /\ th[u].pc = "acquire_read"
    /\ th[u].lk = th[t].lk

\* C3 (write-lock ordering): a mutation appends its WAL entry while it holds the write
\* lock of the library it changed, and no mutation of that library that changed
\* memory before it is still unlogged, so the log has the order of the memory effects.
C3_WriteLockOrder ==
  [][\A t \in Threads :
       (th[t].pc = "wal" /\ th'[t].pc # "wal")
         => /\ HoldsWrite(t)
            /\ th[t].lk = Get(repo.locks, th[t].lib, 0)
            /\ th[t].ahead = {}]_vars

\* what a reader of library l can see: its record, documents, chunks and map entries
LibView(r, l) ==
  [lib |-> Get(r.libraries, l, <<>>),
   docs |-> [d \in DocsOf(r, l) |-> r.documents[d]],
   chunks |-> [c \in ChunksOf(r, l) |-> r.chunks[c]],
   by_lib |-> Get(r.by_library_docs, l, {}),
   by_doc |-> [d \in DocsOf(r, l) |-> Get(r.by_document_chunks, d, {})]]

\* C4 (readers see no writes): while a search holds a library's read lock, no step of
\* another thread changes that library's entities or its live index entries.
C4_ReadersSeeNoWrites ==
  [][\A t \in Threads :
       (th[t].op = "search" /\ HoldsRead(t) /\ th'[t] = th[t])
         => /\ LibView(repo', th[t].lib) = LibView(repo, th[t].lib)
            /\ Get(flat_indices', th[t].lib, <<>>) = Get(flat_indices, th[t].lib, <<>>)
            /\ Get(rp_indices', th[t].lib, <<>>) = Get(rp_indices, th[t].lib, <<>>)]_vars

\* C11: for every reachable repository state, hydrating a fresh repository from its
\* dump_json image gives back the same libraries, documents, chunks, by_library_docs
\* and by_document_chunks.
C11_SnapshotRoundTrip ==
  LET h == hydrate(dump_json(repo), {})
  IN /\ h.libraries = repo.libraries
     /\ h.documents = repo.documents
     /\ h.chunks = repo.chunks
     /\ h.by_library_docs = repo.by_library_docs
     /\ h.by_document_chunks = repo.by_document_chunks

\* the same with the two maps compared by membership only (a key bound to the empty
\* set counts as absent)
C11_RoundTripMembers == SameState(hydrate(dump_json(repo), {}), repo)

\* the chunk, its document and the library all pass their sub-filters
Passes(r, cid, filters) ==
  /\ cid \in DOMAIN r.chunks
  /\ r.chunks[cid].document_id \in DOMAIN r.documents
  /\ r.chunks[cid].library_id \in DOMAIN r.libraries
  /\ match_obj(r.chunks[cid], filters.chunk)
  /\ match_obj(r.documents[r.chunks[cid].document_id], filters.document)
  /\ match_obj(r.libraries[r.chunks[cid].library_id], filters.library)

FilteredSearchDone == ResponsePending /\ last.status = "ok"

\* C12: every hit of a search with filters present is a chunk for which the chunk,
\* document and library sub-filters all hold, on the flat path and on the RP path;
\* when no chunk of the library passes, there is no hit.
C12_FilterSoundness ==
  FilteredSearchDone =>
    \A i \in DOMAIN last.hits : Passes(repo, last.hits[i].chunk_id, last.req.filters)


\* the metric the hits of the answered search were scored with: the RP index's own
\* metric on the RP path, the request's metric where the flat path ranks the allowed ids
RankMetric ==
  IF last.req.algo = "rp" \/ (last.req.algo = "auto" /\ last.lib \in DOMAIN rp_indices)
  THEN rp_indices[last.lib].metric
  ELSE last.req.metric

\* the embedded chunks of the searched library that pass the request's filters
PassingEmbedded ==
  {cid \in DOMAIN repo.chunks :
     /\ repo.chunks[cid].library_id = last.lib
     /\ repo.chunks[cid].embedding # NoEmb
     /\ Passes(repo, cid, last.req.filters)}

HitIds == {last.hits[i].chunk_id : i \in DOMAIN last.hits}

ScoreOf(cid) == Score(RankMetric, embed(last.req.query_text), repo.chunks[cid].embedding)

\* C13: a search with filters present that returns k hits holds every embedded chunk
\* of the library that passes the filters and scores at least as much as the k-th hit;
\* when fewer than k chunks pass the filters, every one of them is returned.
C13_FilterCompleteness ==
  FilteredSearchDone =>
    /\ Len(last.hits) = last.req.k =>
         \A cid \in PassingEmbedded :
           ScoreOf(cid) >= last.hits[last.req.k].score => cid \in HitIds
    /\ Cardinality(PassingEmbedded) < last.req.k => PassingEmbedded \subseteq HitIds

\* the same with a chunk that only ties with the k-th hit allowed to be left out
C13_CompleteAboveKth ==
  FilteredSearchDone =>
    /\ Len(last.hits) = last.req.k =>
         \A cid \in PassingEmbedded :
           ScoreOf(cid) > last.hits[last.req.k].score => cid \in HitIds
    /\ Cardinality(PassingEmbedded) < last.req.k => PassingEmbedded \subseteq HitIds


(* ---------------- FlatIndex.query over every small index ---------------- *)
\* the vectors an index holds and a query brings
Vectors == [1..EmbedDim -> 0..1]

\* the lists of pairs FlatIndex.rebuild is given: n distinct ids in any order, each
\* with a vector
PairLists ==
  UNION {{[i \in 1..n |-> <<ids[i], vecs[i]>>] : ids \in Orders(1..n), vecs \in [1..n -> Vectors]} :
           n \in 0..MaxPairs}

\* FlatIndex(metric) followed by rebuild(pairs)
InitFlat ==
  \E metric \in Metrics, pairs \in PairLists :
    /\ flat_indices = Put(EmptyMap, 1, FlatIndex(metric, pairs))
    /\ rp_indices = EmptyMap
    /\ repo = InMemoryRepo
    /\ disk = DiskStore
    /\ next_id = [lib |-> 1, doc |-> 1, chunk |-> 1]
    /\ snap = SnapIdle
    /\ last = Outcome("init", "ok", 0, 0, 0)
    /\ n_snap = 0
    /\ n_fault = 0
    /\ th = [t \in Threads |-> IdleThread]
    /\ rw = [i \in LockIds |-> RWLock]
    /\ lazy_flat = EmptyMap
    /\ libraries_repo = InMemoryRepo
    /\ wf = QueryWorkflow

\* no query has been answered yet; a query leaves the index as it is, so the first
\* query on each index is every query
Unqueried == last.op = "init"

\* FlatIndex.query(q, k)
FlatQuery ==
  \E q \in Vectors, k \in 0..(MaxPairs + 1) :
    /\ Unqueried
    /\ last' = [op |-> "flat.query", status |-> "ok", lib |-> 1, doc |-> 0,
                hits |-> FlatIndex_query(flat_indices[1], q, k), q |-> q, k |-> k]
    /\ UNCHANGED <<repo, disk, flat_indices, rp_indices, next_id, snap, n_snap, n_fault,
                   th, rw, lazy_flat, libraries_repo, wf>>

NextFlat == FlatQuery

SpecFlat == InitFlat /\ [][NextFlat]_vars

FlatQueried == last.op = "flat.query"

\* position of an id in the index, and the score of the pair at a position
PosOf(idx, id) == CHOOSE i \in DOMAIN idx.ids : idx.ids[i] = id

ScoreAt(idx, q, i) == Score(idx.metric, q, idx.vecs[i])

\* pair i of the index ranks before pair j: a larger score, or the same score and
\* inserted earlier
RanksBefore(idx, q, i, j) ==
  \/ ScoreAt(idx, q, i) > ScoreAt(idx, q, j)
  \/ ScoreAt(idx, q, i) = ScoreAt(idx, q, j) /\ i < j

\* C14: FlatIndex.query on an index of N pairs returns min(k, N) pairs, each an id of
\* the index with its score (cosine as is, l2 negated), in decreasing score with equal
\* scores in insertion order, and every pair left out ranks after every pair returned;
\* an empty index returns the empty list.
C14_FlatTopK ==
  FlatQueried =>
    LET idx == flat_indices[1]
        hits == last.hits
        pos(i) == PosOf(idx, hits[i][1])
    IN /\ Len(hits) = Min(last.k, Len(idx.ids))
       /\ \A i \in DOMAIN hits :
            /\ \E j \in DOMAIN idx.ids : idx.ids[j] = hits[i][1]
            /\ hits[i][2] = ScoreAt(idx, last.q, pos(i))
       /\ \A i, j \in DOMAIN hits : i < j => RanksBefore(idx, last.q, pos(i), pos(j))
       /\ \A n \in DOMAIN idx.ids :
            (\A i \in DOMAIN hits : hits[i][1] # idx.ids[n])
              => \A i \in DOMAIN hits : RanksBefore(idx, last.q, pos(i), n)
       /\ idx.ids = <<>> => hits = <<>>

\* a query that returns fewer pairs than the index holds, where a pair left out has
\* the score of a pair returned and the ids are not in increasing order
C14_Witness ==
  /\ FlatQueried
  /\ last.k >= 2
  /\ Len(last.hits) = last.k
  /\ Len(flat_indices[1].ids) > last.k
  /\ flat_indices[1].ids[1] > flat_indices[1].ids[2]
  /\ \E n \in DOMAIN flat_indices[1].ids :
       /\ \A i \in DOMAIN last.hits : last.hits[i][1] # flat_indices[1].ids[n]
       /\ ScoreAt(flat_indices[1], last.q, n) = last.hits[last.k][2]


(* ------------- RPForestIndex.query beside FlatIndex.query --------------- *)
\* constructor arguments of RPForestIndex; candidate_mult in tenths
RPParams ==
  [trees : {1, 2}, leaf_size : {MaxPairs}, seed : {42}, candidate_mult : {1, 20}]

\* a FlatIndex and an RPForestIndex of the same metric rebuilt from the same pairs
InitRP ==
  \E metric \in Metrics, pairs \in PairLists, params \in RPParams :
    /\ flat_indices = Put(EmptyMap, 1, FlatIndex(metric, pairs))
    /\ rp_indices = Put(EmptyMap, 1, RPForestIndex(metric, params, pairs))
    /\ repo = InMemoryRepo
    /\ disk = DiskStore
    /\ next_id = [lib |-> 1, doc |-> 1, chunk |-> 1]
    /\ snap = SnapIdle
    /\ last = Outcome("init", "ok", 0, 0, 0)
    /\ n_snap = 0
    /\ n_fault = 0
    /\ th = [t \in Threads |-> IdleThread]
    /\ rw = [i \in LockIds |-> RWLock]
    /\ lazy_flat = EmptyMap
    /\ libraries_repo = InMemoryRepo
    /\ wf = QueryWorkflow

\* RPForestIndex.query(q, k)
RPQuery ==
  \E q \in Vectors, k \in 0..(MaxPairs + 1) :
   \E order \in Orders(RPCandidates(rp_indices[1])) :
    /\ Unqueried
    /\ last' = [op |-> "rp.query", status |-> "ok", lib |-> 1, doc |-> 0,
                hits |-> RPForestIndex_query(rp_indices[1], q, k, order), q |-> q, k |-> k]
    /\ UNCHANGED <<repo, disk, flat_indices, rp_indices, next_id, snap, n_snap, n_fault,
                   th, rw, lazy_flat, libraries_repo, wf>>

NextRP == RPQuery

SpecRP == InitRP /\ [][NextRP]_vars

RPQueried == last.op = "rp.query"

\* C15: with leaf_size at least the number of pairs, RPForestIndex.query returns the
\* list FlatIndex.query returns over the same pairs and metric, in the same order.
C15_RPEqualsFlat ==
  (RPQueried /\ rp_indices[1].leaf_size >= Len(rp_indices[1].ids))
    => last.hits = FlatIndex_query(flat_indices[1], last.q, last.k)

\* the cap on the candidates the query reads
RPLimit == Max(last.k, (rp_indices[1].trees * rp_indices[1].leaf_size
                          * rp_indices[1].candidate_mult) \div 10)

\* the same where no candidate is cut away, compared as lists of scores
C15_SameHitsUncut ==
  (RPQueried /\ rp_indices[1].leaf_size >= Len(rp_indices[1].ids)
             /\ RPLimit >= Len(rp_indices[1].ids))
    => LET f == FlatIndex_query(flat_indices[1], last.q, last.k)
       IN /\ Len(last.hits) = Len(f)
          /\ [i \in DOMAIN f |-> f[i][2]] = [i \in DOMAIN last.hits |-> last.hits[i][2]]


(* ------------- the routers and the repository each is wired to ----------- *)
\* The library, document and chunk routers resolve their services over
\* api/libraries.py repo_singleton (Depends(lambda: repo_singleton)); the search
\* router resolves SearchService over singletons.repo_singleton (Depends(get_repo)).
\* Both modules construct their own InMemoryRepo(); the WAL goes to the one DiskStore.

\* POST /v1/libraries
HttpCreateLibrary ==
  \E name \in Names :
    LET s == LibraryService_create(libraries_repo, disk.wal, next_id.lib, name, 0, {})
    IN /\ Ready
       /\ next_id.lib <= MaxLibs
       /\ libraries_repo' = s.repo
       /\ UNCHANGED wf
       /\ disk' = [disk EXCEPT !.wal = s.wal]
       /\ next_id' = [next_id EXCEPT !.lib = @ + 1]
       /\ last' = Outcome("library.create", s.status, next_id.lib, 0, 0)
       /\ UNCHANGED <<repo, flat_indices, rp_indices, snap, n_snap, n_fault, th, rw, lazy_flat>>

\* POST /v1/libraries/{lib_id}/documents
HttpCreateDocument ==
  \E lib_id \in KnownLibs, title \in Titles :
    LET s == DocumentService_create(libraries_repo, disk.wal, next_id.doc, lib_id, title, 0)
    IN /\ Ready
       /\ next_id.doc <= MaxDocs
       /\ libraries_repo' = s.repo
       /\ UNCHANGED wf
       /\ disk' = [disk EXCEPT !.wal = s.wal]
       /\ next_id' = [next_id EXCEPT !.doc = @ + 1]
       /\ last' = Outcome("document.create", s.status, lib_id, next_id.doc, 0)
       /\ UNCHANGED <<repo, flat_indices, rp_indices, snap, n_snap, n_fault, th, rw, lazy_flat>>

\* POST /v1/libraries/{lib_id}/documents/{doc_id}/chunks
HttpCreateChunk ==
  \E lib_id \in KnownLibs, doc_id \in KnownDocs, text \in SearchTexts, ce \in BOOLEAN :
    LET s == ChunkService_create(libraries_repo, disk.wal, next_id.chunk, lib_id, doc_id,
                                 text, ce, 0, {})
        stored == next_id.chunk \in DOMAIN s.repo.chunks
    IN /\ Ready
       /\ stored => next_id.chunk <= MaxChunks
       /\ libraries_repo' = s.repo
       /\ UNCHANGED wf
       /\ disk' = [disk EXCEPT !.wal = s.wal]
       /\ next_id' = IF stored THEN [next_id EXCEPT !.chunk = @ + 1] ELSE next_id
       /\ last' = Outcome("chunk.create", s.status, lib_id, doc_id, next_id.chunk)
       /\ UNCHANGED <<repo, flat_indices, rp_indices, snap, n_snap, n_fault, th, rw, lazy_flat>>

\* POST /v1/libraries/{lib_id}/search
HttpSearch ==
  \E lib_id \in KnownLibs, query_text \in SearchTexts,
     query_embedding \in QueryEmbeddings \cup {NoEmb}, k \in 1..MaxK,
     algo \in Algos \cup {"auto"}, metric \in Metrics :
    LET req == SearchRequest(query_text, query_embedding, k, algo, metric, NoFilters)
        res == SearchService_search(flat_indices, rp_indices, EmptyMap, repo, lib_id, req,
                                    LiveLocks, <<>>)
    IN /\ Ready
       /\ repo' = res.repo
       /\ lazy_flat' = res.lazy
       /\ last' = [op |-> "search", status |-> res.status, lib |-> lib_id, doc |-> 0,
                   hits |-> res.hits, detail |-> res.detail, req |-> req]
       /\ UNCHANGED <<disk, flat_indices, rp_indices, snap, next_id, n_snap, n_fault, th, rw,
                      libraries_repo, wf>>

NextHttp ==
  \/ HttpCreateLibrary
  \/ HttpCreateDocument
  \/ HttpCreateChunk
  \/ HttpSearch
  \/ SearchRespond

SpecHttp == Init /\ [][NextHttp]_vars

\* the embedded chunks the chunk endpoint has stored for the searched library
CreatedEmbedded ==
  {cid \in DOMAIN libraries_repo.chunks :
     /\ libraries_repo.chunks[cid].library_id = last.lib
     /\ libraries_repo.chunks[cid].embedding # NoEmb}

\* C16: after a library, a document and N >= 1 embedded chunks have been created
\* through the endpoints, a search on the library with algo auto, no filters and no
\* index built succeeds with min(k, N) hits, each a chunk of that library.
C16_CreatedIsSearchable ==
  (/\ ResponsePending
   /\ last.req.algo = "auto"
   /\ last.req.filters = NoFilters
   /\ last.lib \in DOMAIN libraries_repo.libraries
   /\ last.lib \notin DOMAIN flat_indices
   /\ last.lib \notin DOMAIN rp_indices
   /\ CreatedEmbedded # {})
    => /\ last.status = "ok"
       /\ Len(last.hits) = Min(last.req.k, Cardinality(CreatedEmbedded))
       /\ \A i \in DOMAIN last.hits :
            /\ last.hits[i].chunk_id \in CreatedEmbedded
            /\ last.hits[i].library_id = last.lib


\* C17: a search with an explicit query_embedding whose length differs from the
\* embedding_dim the library was given through the chunk endpoint is answered with
\* BadRequest "Embedding dimension mismatch" and no hits.
C17_QueryDimRejected ==
  (/\ ResponsePending
   /\ last.req.query_embedding # NoEmb
   /\ last.lib \in DOMAIN libraries_repo.libraries
   /\ libraries_repo.libraries[last.lib].embedding_dim # NoDim
   /\ Len(last.req.query_embedding) # libraries_repo.libraries[last.lib].embedding_dim)
    => /\ last.status = "bad_request"
       /\ last.detail = "Embedding dimension mismatch"
       /\ last.hits = <<>>

\* a search call handed an explicit query_embedding
EmbeddingSearched(l) == l.op = "search" /\ "query_embedding" \in DOMAIN l /\ l.query_embedding # NoEmb

\* the same for SearchService.search over the repository the chunks were written to:
\* a call on a library whose embedding_dim is set, with an explicit query_embedding of
\* another length, raises BadRequest "Embedding dimension mismatch" and gives no hits
C17_ServiceChecksDim ==
  [][(/\ EmbeddingSearched(last')
      /\ last'.lib \in DOMAIN repo.libraries
      /\ repo.libraries[last'.lib].embedding_dim # NoDim
      /\ Len(last'.query_embedding) # repo.libraries[last'.lib].embedding_dim)
       => /\ last'.status = "bad_request"
          /\ last'.detail = "Embedding dimension mismatch"
          /\ last'.hits = <<>>]_vars

\* such a call has been rejected
C17_ServiceWitness ==
  /\ EmbeddingSearched(last)
  /\ last.detail = "Embedding dimension mismatch"
  /\ last.lib \in DOMAIN repo.libraries
  /\ Len(last.query_embedding) # repo.libraries[last.lib].embedding_dim
  /\ \E c \in DOMAIN repo.chunks : repo.chunks[c].library_id = last.lib /\ repo.chunks[c].embedding # NoEmb


\* the call left the repository and the WAL as they were
NoEffect == repo' = repo /\ disk'.wal = disk.wal

\* C18: a delete of a library, document or chunk whose id is not in the repository
\* leaves the repository unchanged and appends nothing to the WAL.
C18_IdempotentDelete ==
  [][/\ (last'.op = "library.delete" /\ last'.lib \notin DOMAIN repo.libraries) => NoEffect
     /\ (last'.op = "document.delete" /\ last'.doc \notin DOMAIN repo.documents) => NoEffect
     /\ (last'.op = "chunk.delete" /\ last'.chunk \notin DOMAIN repo.chunks) => NoEffect]_vars

\* the part of it ChunkService.delete is responsible for
C18_ChunkDeleteIdempotent ==
  [][(last'.op = "chunk.delete" /\ last'.chunk \notin DOMAIN repo.chunks) => NoEffect]_vars


\* what a rejected call must leave alone: the entities and the secondary maps
Entities(r) ==
  [libraries |-> r.libraries, documents |-> r.documents, chunks |-> r.chunks,
   by_library_docs |-> r.by_library_docs, by_document_chunks |-> r.by_document_chunks]

Rejected(l) == l.status \in {"bad_request", "not_found"}

\* C19: a chunk create or chunk update that is rejected with BadRequest or NotFound
\* leaves the chunks, documents, secondary maps and libraries, and the WAL, as they
\* were before the call.
C19_ChecksPrecedeChange ==
  [][(last'.op \in {"chunk.create", "chunk.update"} /\ Rejected(last'))
       => Entities(repo') = Entities(repo) /\ disk'.wal = disk.wal]_vars

\* the part of it ChunkService.create is responsible for
C19_CreateChecksFirst ==
  [][(last'.op = "chunk.create" /\ Rejected(last'))
       => Entities(repo') = Entities(repo) /\ disk'.wal = disk.wal]_vars


(* ---------------- restarts over a WAL with a torn last line -------------- *)
\* The process is killed while append_wal writes a line: the part of the line that
\* reached the file does not parse.  A new process then runs bootstrap_from_disk.
TornRestart ==
  LET d == [disk EXCEPT !.wal = Append(@, Unparsable)]
      b == bootstrap_from_disk(d)
  IN /\ Ready
     /\ Len(disk.wal) <= MaxWal
     /\ disk' = d
     /\ repo' = b.repo
     /\ flat_indices' = EmptyMap
     /\ rp_indices' = EmptyMap
     /\ lazy_flat' = EmptyMap
     /\ libraries_repo' = InMemoryRepo
     /\ UNCHANGED wf
     /\ snap' = SnapIdle
     /\ last' = Outcome("bootstrap", b.status, 0, 0, 0)
     /\ UNCHANGED <<next_id, n_snap, n_fault, th, rw>>

NextBoot ==
  \/ LibCreate(NoFault)
  \/ LibUpdate(NoFault)
  \/ DocCreate(NoFault)
  \/ ChunkCreate(NoFault)
  \/ ForceSnapshot
  \/ Restart(FALSE)
  \/ TornRestart

SpecBoot == Init /\ [][NextBoot]_vars

\* the WAL lines before the first one that does not parse
ParsablePrefix(w) ==
  IF \E i \in DOMAIN w : w[i] = Unparsable
  THEN SubSeq(w, 1, (CHOOSE i \in DOMAIN w :
                       w[i] = Unparsable /\ \A j \in 1..(i - 1) : w[j] # Unparsable) - 1)
  ELSE w

\* the repository a bootstrap that stops reading at the first bad line would build
PrefixRepo(d) ==
  Replay(Run(IF d.snapshot.schema_version # 0 THEN hydrate(d.snapshot, {}) ELSE InMemoryRepo,
             <<>>),
         ParsablePrefix(d.wal), {}).repo

\* C20: a bootstrap over a WAL holding a line that does not parse completes without
\* error, and the repository holds the snapshot with the entries before that line
\* applied and nothing of the line or of what follows it.
C20_BootstrapToleratesBadLine ==
  (last.op = "bootstrap" /\ DiskStore_load(disk) # "ok")
    => last.status = "ok" /\ repo = PrefixRepo(disk)

\* what the code does instead: the load raises and the repository stays empty
C20_BadLineStopsBootstrap ==
  (last.op = "bootstrap" /\ DiskStore_load(disk) # "ok")
    => last.status = "json_error" /\ repo = InMemoryRepo


(* ------------- index builds, snapshots and restarts between calls -------- *)
NextRestore ==
  \/ LibCreate(NoFault)
  \/ DocCreate(NoFault)
  \/ ChunkCreate(NoFault)
  \/ IndexBuild
  \/ ForceSnapshot
  \/ Restart(FALSE)

SpecRestore == Init /\ [][NextRestore]_vars

\* the algorithms library l has a live index for
LiveAlgos(flat, rp, l) ==
  {a \in Algos : l \in DOMAIN (IF a = "flat" THEN flat ELSE rp)}

\* the algorithms the library record says are built
BuiltAlgos(lib) == IF lib.index_state.built THEN {lib.index_state.algo} ELSE {}

\* C21: a build with persist=True on an existing library returns, appends exactly one
\* library.index_state WAL entry carrying the state it has just stored in the library,
\* and a bootstrap completes with every library's index state as it was before the
\* restart and a live index for exactly the algorithms whose state says built.
C21_IndexStateSurvivesRestart ==
  [][/\ (last'.op = "index.build" /\ last'.lib \in DOMAIN repo.libraries)
          => /\ last'.status = "ok"
             /\ Len(disk'.wal) = Len(disk.wal) + 1
             /\ disk'.wal[Len(disk'.wal)].op = "library.index_state"
             /\ disk'.wal[Len(disk'.wal)].library_id = last'.lib
             /\ disk'.wal[Len(disk'.wal)].index_state = repo'.libraries[last'.lib].index_state
             /\ repo'.libraries[last'.lib].index_state.built
             /\ repo'.libraries[last'.lib].index_state.algo = last'.algo
     /\ last'.op = "bootstrap"
          => /\ last'.status = "ok"
             /\ \A l \in DOMAIN repo.libraries :
                  /\ l \in DOMAIN repo'.libraries
                  /\ repo'.libraries[l].index_state = repo.libraries[l].index_state
                  /\ LiveAlgos(flat_indices', rp_indices', l) = BuiltAlgos(repo'.libraries[l])]_vars

\* what the code does instead: a build with update_state replaces the cache entry,
\* then fails; the library record and the WAL stay as they were
C21_BuildLeavesNoRecord ==
  [][(last'.op = "index.build" /\ last'.lib \in DOMAIN repo.libraries)
       => /\ last'.status = "attr_error"
          /\ disk' = disk
          /\ repo'.libraries = repo.libraries
          /\ last'.algo \in LiveAlgos(flat_indices', rp_indices', last'.lib)]_vars

\* the embedded chunks of library l
EmbeddedIds(r, l) ==
  {c \in DOMAIN r.chunks : r.chunks[c].library_id = l /\ r.chunks[c].embedding # NoEmb}

\* C22: restore_all_indices, run at the end of a bootstrap whose load and replay
\* succeeded, completes, appends nothing to the WAL, leaves every library's
\* index_state as the replay left it, and installs for every state that says built a
\* live index of that kind over exactly the library's embedded chunks.
C22_RestoreIsFrameOnly ==
  [][(last'.op = "bootstrap" /\ DiskStore_load(disk) = "ok")
       => /\ last'.status = "ok"
          /\ disk' = disk
          /\ \A l \in DOMAIN PrefixRepo(disk).libraries :
               /\ l \in DOMAIN repo'.libraries
               /\ repo'.libraries[l].index_state = PrefixRepo(disk).libraries[l].index_state
               /\ BuiltAlgos(repo'.libraries[l]) \subseteq LiveAlgos(flat_indices', rp_indices', l)
               /\ \A a \in BuiltAlgos(repo'.libraries[l]) :
                    RPCandidates(IF a = "flat" THEN flat_indices'[l] ELSE rp_indices'[l])
                      = EmbeddedIds(repo', l)]_vars

\* what the code does instead: with any library on disk the restore raises, with
\* none there is nothing to restore; no index is live after a bootstrap
C22_RestoreRaises ==
  [][(last'.op = "bootstrap" /\ DiskStore_load(disk) = "ok")
       => /\ last'.status = (IF DOMAIN repo'.libraries = {} THEN "ok" ELSE "attr_error")
          /\ disk' = disk
          /\ flat_indices' = EmptyMap
          /\ rp_indices' = EmptyMap]_vars

(* ------------------------------ chunk updates --------------------------- *)
\* C23: a chunk update with a text that returns leaves the chunk with that text and
\* with the embedder's vector for it, and appends exactly one chunk.update WAL entry
\* that carries both; an update without a text leaves the chunks and the WAL as they
\* were.
C23_UpdateReembeds ==
  [][(last'.op = "chunk.update" /\ last'.status = "ok")
       => IF last'.text # NoText
          THEN /\ last'.chunk \in DOMAIN repo'.chunks
               /\ repo'.chunks[last'.chunk].text = last'.text
               /\ repo'.chunks[last'.chunk].embedding = embed(last'.text)
               /\ disk'.wal = Append(disk.wal,
                                     [op |-> "chunk.update", id |-> last'.chunk,
                                      data |-> [text |-> last'.text,
                                                embedding |-> embed(last'.text)]])
          ELSE repo'.chunks = repo.chunks /\ disk'.wal = disk.wal]_vars

\* an update has given a chunk a text it was not created with, and with it another
\* embedding than the one it was created with
C23_Witness ==
  /\ last.op = "chunk.update"
  /\ last.status = "ok"
  /\ last.text \in NewTexts \ Texts
  /\ repo.chunks[last.chunk].text = last.text
  /\ repo.chunks[last.chunk].embedding = embed(last.text)
  /\ \A t \in Texts : embed(t) # embed(last.text)
  /\ disk.wal # <<>>
  /\ disk.wal[Len(disk.wal)].op = "chunk.update"

(* ------------- which index a search uses, over a stored library --------- *)
\* POST /search without filters, on any library id, with a text, an embedding, both
\* or neither; the request is kept with the hits until the response is sent
SearchAny ==
  \E lib_id \in KnownLibs, query_text \in SearchTexts \cup {NoText},
     query_embedding \in QueryEmbeddings \cup {NoEmb}, k \in 1..MaxK,
     algo \in Algos \cup {"auto"}, metric \in Metrics :
   \E order \in Orders(IF algo = "flat" THEN {} ELSE SearchCandidates(rp_indices, lib_id)) :
    LET req == SearchRequest(query_text, query_embedding, k, algo, metric, NoFilters)
        res == SearchService_search(flat_indices, rp_indices, EmptyMap, repo, lib_id, req,
                                    LiveLocks, order)
    IN /\ Ready
       /\ repo' = res.repo
       /\ lazy_flat' = res.lazy
       /\ UNCHANGED <<libraries_repo, wf>>
       /\ last' = [op |-> "search", status |-> res.status, lib |-> lib_id, doc |-> 0,
                   hits |-> res.hits, detail |-> res.detail, req |-> req]
       /\ UNCHANGED <<disk, flat_indices, rp_indices, snap, next_id, n_snap, n_fault, th, rw>>

\* IndexingService.get_available_index(lib_id, prefer), called on its own
GetAvailableIndex ==
  \E lib_id \in KnownLibs, prefer \in Algos \cup {"none"} :
    /\ Ready
    /\ last' = [op |-> "get_available_index", status |-> "ok", lib |-> lib_id, doc |-> 0,
                hits |-> <<>>, prefer |-> prefer,
                found |-> get_available_index(flat_indices, rp_indices, lib_id, prefer)]
    /\ UNCHANGED <<repo, disk, flat_indices, rp_indices, next_id, snap, n_snap, n_fault,
                   th, rw, lazy_flat, libraries_repo, wf>>

NextPlan ==
  \/ IndexBuild
  \/ SearchAny
  \/ SearchRespond
  \/ GetAvailableIndex

SpecPlan == InitSearch /\ [][NextPlan]_vars

\* C24: a search with algo "rp" on a library without a live RP index is answered with
\* BadRequest and no hits, also when a flat index is live, and it leaves both index
\* caches, the lazily built indices and the library's index_state as they were.
C24_NoImplicitRPBuild ==
  [][(/\ last'.op = "search"
      /\ "req" \in DOMAIN last'
      /\ ~ResponsePending
      /\ last'.req.algo = "rp"
      /\ last'.lib \in DOMAIN repo.libraries
      /\ last'.lib \notin DOMAIN rp_indices)
       => /\ last'.status = "bad_request"
          /\ last'.hits = <<>>
          /\ flat_indices' = flat_indices
          /\ rp_indices' = rp_indices
          /\ lazy_flat' = lazy_flat
          /\ last'.lib \in DOMAIN repo'.libraries
          /\ repo'.libraries[last'.lib].index_state = repo.libraries[last'.lib].index_state]_vars

\* such a search has been refused for the missing RP index while a flat index is live
C24_Witness ==
  /\ ResponsePending
  /\ last.req.algo = "rp"
  /\ last.status = "bad_request"
  /\ last.detail = "Requested RP index not built"
  /\ last.lib \in DOMAIN flat_indices
  /\ last.lib \notin DOMAIN rp_indices
  /\ EmbeddedIds(repo, last.lib) # {}

\* C30: get_available_index with prefer "flat" returns the live flat index or nothing,
\* with prefer "rp" the live RP index or nothing, and without a preference the RP
\* index when one is live, else the flat index when one is live, else nothing.
C30_PreferenceHonoured ==
  (last.op = "get_available_index") =>
    LET l == last.lib
        none == [kind |-> "none", inst |-> NoIndex]
        fl == IF l \in DOMAIN flat_indices THEN [kind |-> "flat", inst |-> flat_indices[l]] ELSE none
        rp == IF l \in DOMAIN rp_indices THEN [kind |-> "rp", inst |-> rp_indices[l]] ELSE none
    IN /\ last.prefer = "flat" => last.found = fl
       /\ last.prefer = "rp" => last.found = rp
       /\ last.prefer = "none" => last.found = (IF rp # none THEN rp ELSE fl)

\* the part of it that holds: without a preference RP comes before flat, and with a
\* preference the preferred kind is returned whenever it is live
C30_PreferredWhenLive ==
  (last.op = "get_available_index") =>
    LET l == last.lib
    IN /\ (last.prefer = "flat" /\ l \in DOMAIN flat_indices)
            => last.found = [kind |-> "flat", inst |-> flat_indices[l]]
       /\ ((last.prefer \in {"rp", "none"}) /\ l \in DOMAIN rp_indices)
            => last.found = [kind |-> "rp", inst |-> rp_indices[l]]
       /\ (last.prefer = "none" /\ l \notin DOMAIN rp_indices /\ l \in DOMAIN flat_indices)
            => last.found = [kind |-> "flat", inst |-> flat_indices[l]]
       /\ (l \notin DOMAIN rp_indices /\ l \notin DOMAIN flat_indices)
            => last.found = [kind |-> "none", inst |-> NoIndex]

(* ------------------- deletes over a stored library ---------------------- *)
\* a handler run becomes the new repository and WAL; the WAL of these runs starts
\* with the entries that stored the library
CascadeCommit(s) ==
  /\ Len(s.wal) <= MaxCascadeWal
  /\ repo' = s.repo
  /\ disk' = [disk EXCEPT !.wal = s.wal]

\* DELETE /v1/libraries/{lib_id}
LibDeleteStored ==
  \E lib_id \in KnownLibs :
    LET s == LibraryService_delete(repo, disk.wal, lib_id, 0)
    IN /\ Ready
       /\ CascadeCommit(s)
       /\ last' = Outcome("library.delete", s.status, lib_id, 0, 0)
       /\ UNCHANGED <<flat_indices, rp_indices, snap, next_id, n_snap, n_fault, th, rw,
                      lazy_flat, libraries_repo, wf>>

\* DELETE /v1/libraries/{lib_id}/documents/{doc_id}
DocDeleteStored ==
  \E lib_id \in KnownLibs, doc_id \in KnownDocs :
    LET s == DocumentService_delete(repo, disk.wal, lib_id, doc_id, 0)
    IN /\ Ready
       /\ CascadeCommit(s)
       /\ last' = Outcome("document.delete", s.status, lib_id, doc_id, 0)
       /\ UNCHANGED <<flat_indices, rp_indices, snap, next_id, n_snap, n_fault, th, rw,
                      lazy_flat, libraries_repo, wf>>

\* DELETE /v1/libraries/{lib_id}/documents/{doc_id}/chunks/{chunk_id}
ChunkDeleteStored ==
  \E doc_id \in KnownDocs, chunk_id \in 1..(next_id.chunk - 1) :
    LET s == ChunkService_delete(repo, disk.wal, doc_id, chunk_id, 0, LiveLocks)
    IN /\ Ready
       /\ CascadeCommit(s)
       /\ last' = [op |-> "chunk.delete", status |-> s.status, lib |-> 0, doc |-> doc_id,
                   hits |-> <<>>, chunk |-> chunk_id]
       /\ UNCHANGED <<flat_indices, rp_indices, snap, next_id, n_snap, n_fault, th, rw,
                      lazy_flat, libraries_repo, wf>>

NextCascade ==
  \/ LibDeleteStored
  \/ DocDeleteStored
  \/ ChunkDeleteStored

SpecCascade == InitSearch /\ [][NextCascade]_vars

\* the WAL entries a step has appended
Appended(w1, w2) == SubSeq(w2, Len(w1) + 1, Len(w2))

OpRank(op) ==
  IF op = "chunk.delete" THEN 1
  ELSE IF op = "document.delete" THEN 2
  ELSE IF op = "library.delete" THEN 3
  ELSE 0

\* the entries of a are deletes in bottom-up order, each entity named at most once
BottomUp(a) ==
  /\ \A i \in DOMAIN a : OpRank(a[i].op) > 0
  /\ \A i, j \in DOMAIN a : i < j => OpRank(a[i].op) <= OpRank(a[j].op)
  /\ \A i, j \in DOMAIN a : (i # j /\ a[i].op = a[j].op) => a[i].id # a[j].id

\* the ids the entries of a with operation op name
Logged(a, op) == {a[i].id : i \in {j \in DOMAIN a : a[j].op = op}}

\* C25: one library delete appends to the WAL, after what was there, chunk.delete
\* entries covering every stored chunk of the library, then document.delete entries
\* covering every stored document of the library, then one library.delete entry, the
\* last; one document delete appends chunk.delete entries covering every stored chunk
\* of the document and then its document.delete entry, the last.
C25_CascadeWalOrder ==
  [][LET a == Appended(disk.wal, disk'.wal)
     IN /\ (last'.op = "library.delete" /\ last'.status = "ok")
             => /\ SubSeq(disk'.wal, 1, Len(disk.wal)) = disk.wal
                /\ BottomUp(a)
                /\ a # <<>>
                /\ a[Len(a)] = [op |-> "library.delete", id |-> last'.lib]
                /\ Logged(a, "library.delete") = {last'.lib}
                /\ ChunksOf(repo, last'.lib) \subseteq Logged(a, "chunk.delete")
                /\ DocsOf(repo, last'.lib) \subseteq Logged(a, "document.delete")
        /\ (last'.op = "document.delete" /\ last'.status = "ok")
             => /\ SubSeq(disk'.wal, 1, Len(disk.wal)) = disk.wal
                /\ BottomUp(a)
                /\ a # <<>>
                /\ a[Len(a)] = [op |-> "document.delete", id |-> last'.doc]
                /\ Logged(a, "library.delete") = {}
                /\ Logged(a, "document.delete") = {last'.doc}
                /\ ChunksIn(repo, last'.doc) \subseteq Logged(a, "chunk.delete")]_vars

\* a library delete has just logged the chunks of two documents, then both documents,
\* then the library
C25_Witness ==
  LET n == Len(disk.wal)
  IN /\ last.op = "library.delete"
     /\ last.status = "ok"
     /\ n >= 5
     /\ disk.wal[n] = [op |-> "library.delete", id |-> last.lib]
     /\ disk.wal[n - 1].op = "document.delete"
     /\ disk.wal[n - 2].op = "document.delete"
     /\ disk.wal[n - 3].op = "chunk.delete"
     /\ disk.wal[n - 4].op = "chunk.delete"
     /\ disk.wal[n - 1].id # disk.wal[n - 2].id
     /\ disk.wal[n - 3].id # disk.wal[n - 4].id

(* ------------- a thread that takes the write side repeatedly ------------ *)
\* th[t].arg counts the calls of acquire_write thread t has made and not yet matched
\* by a release_write

\* the first acquire_write of a service call
NestBegin(t) ==
  /\ th[t].pc = "idle"
  /\ th' = [th EXCEPT ![t] = [IdleThread EXCEPT !.op = "nest", !.mode = "write", !.lk = 1,
                                 !.arg = 1, !.pc = "acquire_write"]]
  /\ UNCHANGED <<repo, disk, next_id, last, rw, SeqVars>>

\* a nested write: acquire_write again on the lock already held
NestAgain(t) ==
  /\ th[t].op = "nest"
  /\ th[t].pc = "locked"
  /\ th[t].arg < MaxDepth
  /\ th' = [th EXCEPT ![t].arg = @ + 1, ![t].pc = "acquire_write"]
  /\ UNCHANGED <<repo, disk, next_id, last, rw, SeqVars>>

\* release_write: `self._lock.release()`; the service call is over with the last one
NestRelease(t) ==
  /\ th[t].op = "nest"
  /\ th[t].pc = "locked"
  /\ rw' = [rw EXCEPT ![th[t].lk] = rlock_release(@)]
  /\ th' = IF th[t].arg = 1 THEN Done(t) ELSE [th EXCEPT ![t].arg = @ - 1]
  /\ UNCHANGED <<repo, disk, next_id, last, SeqVars>>

NextNest ==
  \E t \in Threads :
    \/ NestBegin(t)
    \/ NestAgain(t)
    \/ NestRelease(t)
    \/ LockBegin(t)
    \/ LockEnd(t)
    \/ AcquireRead(t)
    \/ ReleaseRead(t)
    \/ AcquireWriteLock(t)
    \/ AcquireWriteLoop(t)
    \/ CondWake(t)
    \/ ReleaseWrite(t)

SpecNest == Init /\ [][NextNest]_vars

\* the calls of acquire_write thread t has returned from and not yet released
Acquired(t) ==
  IF th[t].op # "nest" THEN 0
  ELSE IF th[t].pc \in {"acquire_write", "aw_loop", "cond_wait", "cond_notified"}
  THEN th[t].arg - 1
  ELSE th[t].arg

\* C26: a thread that holds the write side and calls acquire_write again gets through
\* both steps of the call without waiting, and as long as it has released fewer times
\* than it acquired, no other thread holds the read or write side or can take _lock.
C26_WriterReentrancy ==
  \A t \in Threads :
    Acquired(t) >= 1 =>
      /\ th[t].pc = "acquire_write" => ENABLED AcquireWriteLock(t)
      /\ th[t].pc = "aw_loop" => acquire_write_loop(rw[th[t].lk]) = "locked"
      /\ th[t].pc \notin {"cond_wait", "cond_notified"}
      /\ \A u \in Threads \ {t} :
           th[u].lk = th[t].lk =>
             /\ ~HoldsRead(u)
             /\ ~HoldsWrite(u)
             /\ Acquired(u) = 0
             /\ ~ENABLED AcquireRead(u)
             /\ ~ENABLED AcquireWriteLock(u)
             /\ ~ENABLED CondWake(u)

\* a thread holds the write side twice over while a reader and a writer are held up
C26_Witness ==
  \E t, u, v \in Threads :
    /\ Acquired(t) = 2
    /\ rw[th[t].lk].owner = t
    /\ rw[th[t].lk].depth = 2
    /\ th[u].pc = "acquire_read"
    /\ th[v].pc = "acquire_write"
    /\ v # t
    /\ th[u].lk = th[t].lk
    /\ th[v].lk = th[t].lk

(* --------------------------- readers together --------------------------- *)
\* thread t is inside acquire_write past `_lock.acquire()`, or holds the write side
InWrite(t) ==
  /\ th[t].mode = "write"
  /\ th[t].pc \in {"aw_loop", "cond_wait", "cond_notified", "locked", "wal", "release_write"}

\* C27: while a thread holds the read side of an RWLock and no thread holds the write
\* side or is inside acquire_write, the acquire_read of any other thread can complete
\* at once.
C27_ConcurrentReaders ==
  \A t \in Threads, u \in Threads :
    ( /\ HoldsRead(t)
      /\ u # t
      /\ th[u].pc = "acquire_read"
      /\ th[u].lk = th[t].lk
      /\ \A v \in Threads : th[v].lk = th[t].lk => ~InWrite(v) )
    => ENABLED AcquireRead(u)

\* two threads hold the read side of one RWLock at the same time
C27_Witness ==
  \E t, u \in Threads :
    /\ t # u
    /\ HoldsRead(t)
    /\ HoldsRead(u)
    /\ th[u].lk = th[t].lk
    /\ rw[th[t].lk].readers >= 2
    /\ \A v \in Threads : ~InWrite(v)

(* ----------------------- Document.chunk_ids and the maps ---------------- *)
\* the ids in the list Document.chunk_ids
ListedChunks(r, d) == {r.documents[d].chunk_ids[i] : i \in DOMAIN r.documents[d].chunk_ids}

\* the stored chunks whose document_id is d
StoredChunks(r, d) == {c \in DOMAIN r.chunks : r.chunks[c].document_id = d}

\* C28: for every stored document the ids of Document.chunk_ids, the set
\* by_document_chunks[doc] and the stored chunks with that document_id are the same set.
C28_ChunkIdsMirror ==
  \A d \in DOMAIN repo.documents :
    /\ ListedChunks(repo, d) = Get(repo.by_document_chunks, d, {})
    /\ Get(repo.by_document_chunks, d, {}) = StoredChunks(repo, d)

\* what is left of C28: a stored chunk of a stored document is in by_document_chunks
C28_StoredChunksAreIndexed ==
  \A d \in DOMAIN repo.documents : StoredChunks(repo, d) \subseteq Get(repo.by_document_chunks, d, {})

(* ------------ two RPForestIndex objects rebuilt from the same pairs ------ *)
\* rp_indices[1] and rp_indices[2]: the same constructor arguments, rebuild(pairs) with
\* the same pairs
\* the lists of pairs whose ids are 1..n in this order, each with a vector
TwinPairLists ==
  UNION {{[i \in 1..n |-> <<i, vecs[i]>>] : vecs \in [1..n -> Vectors]} : n \in 0..MaxPairs}

InitTwin ==
  \E metric \in Metrics, pairs \in TwinPairLists, params \in RPParams :
    /\ flat_indices = EmptyMap
    /\ rp_indices = Put(Put(EmptyMap, 1, RPForestIndex(metric, params, pairs)),
                        2, RPForestIndex(metric, params, pairs))
    /\ repo = InMemoryRepo
    /\ disk = DiskStore
    /\ next_id = [lib |-> 1, doc |-> 1, chunk |-> 1]
    /\ snap = SnapIdle
    /\ last = Outcome("init", "ok", 0, 0, 0)
    /\ n_snap = 0
    /\ n_fault = 0
    /\ th = [t \in Threads |-> IdleThread]
    /\ rw = [i \in LockIds |-> RWLock]
    /\ lazy_flat = EmptyMap
    /\ libraries_repo = InMemoryRepo
    /\ wf = QueryWorkflow

\* query(q, k) on both.  Two sets of the same strings filled in the same way iterate
\* alike within one process; in another process the strings hash differently, so the
\* index of another run of the service iterates in an order of its own.
RPQueryTwin ==
  /\ Unqueried
  /\ \E q \in Vectors, k \in 0..(MaxPairs + 1), same_process \in BOOLEAN :
     \E order1 \in Orders(RPCandidates(rp_indices[1])) :
      \E order2 \in IF same_process THEN {order1} ELSE Orders(RPCandidates(rp_indices[2])) :
      /\ last' = [op |-> "rp.query", status |-> "ok", lib |-> 1, doc |-> 0,
                  hits |-> RPForestIndex_query(rp_indices[1], q, k, order1),
                  twin |-> RPForestIndex_query(rp_indices[2], q, k, order2),
                  q |-> q, k |-> k, same_process |-> same_process]
      /\ UNCHANGED <<repo, disk, flat_indices, rp_indices, next_id, snap, n_snap, n_fault,
                     th, rw, lazy_flat, libraries_repo, wf>>

NextTwin == RPQueryTwin

SpecTwin == InitTwin /\ [][NextTwin]_vars

\* the ids of a list of (id, score) pairs, in order
PairIdsOf(hits) == [i \in DOMAIN hits |-> hits[i][1]]

\* C29: two RPForestIndex objects rebuilt from the same ordered pairs with the same
\* parameters and seed are equal, and the same query and k return the same ids in the
\* same order from both.
C29_RPDeterminism ==
  RPQueried =>
    /\ rp_indices[1] = rp_indices[2]
    /\ PairIdsOf(last.hits) = PairIdsOf(last.twin)

\* what is left of C29: the two forests are equal, both answers carry the same scores
\* in the same order, and within one process the answers are the same list
C29_SameWithinProcess ==
  RPQueried =>
    /\ rp_indices[1] = rp_indices[2]
    /\ last.same_process => last.hits = last.twin
    /\ (Len(rp_indices[1].ids) <= RPLimit)
         => [i \in DOMAIN last.hits |-> last.hits[i][2]] = [i \in DOMAIN last.twin |-> last.twin[i][2]]

(* ------------------- the index state a library records ------------------ *)
\* C31: after a build with update_state=True on an existing library, the library's
\* index_state is the state of that build: built, of the algorithm just built, sized
\* by the embedded chunks of the library.
C31_IndexStateMirror ==
  (last.op = "index.build" /\ last.lib \in DOMAIN repo.libraries)
    => /\ repo.libraries[last.lib].index_state.built
       /\ repo.libraries[last.lib].index_state.algo = last.algo
       /\ repo.libraries[last.lib].index_state.size = Cardinality(EmbeddedIds(repo, last.lib))

\* what the code does instead: no library ever records a built index, whatever was
\* built, and the WAL never holds a library.index_state entry
C31_NeverRecorded ==
  /\ \A l \in DOMAIN repo.libraries : repo.libraries[l].index_state = IndexState
  /\ \A i \in DOMAIN disk.wal : disk.wal[i].op # "library.index_state"

(* ------------- index instances as objects: build beside readers --------- *)
\* In these runs an entry of flat_indices and the local `idx` of a thread are
\* references: the record carries the identity of the instance (ref) next to its
\* fields, and a write to an instance shows in every record with its ref.
HasRef(x) == "ref" \in DOMAIN x

RefsInUse ==
  {flat_indices[l].ref : l \in DOMAIN flat_indices}
    \cup {th[u].idx.ref : u \in {v \in Threads : HasRef(th[v].idx)}}

\* a new object is none of the live ones
NewRef == CHOOSE i \in 1..(Cardinality(RefsInUse) + 1) : i \notin RefsInUse

\* _create_index taking the cached instance to rebuild it where it is
NewFlatIndex_InPlace(flat, lib_id, metric, ref) ==
  IF lib_id \in DOMAIN flat THEN [flat[lib_id] EXCEPT !.metric = metric]
  ELSE [ref |-> ref, metric |-> metric, ids |-> <<>>, vecs |-> <<>>]

\* _create_index: `idx = FlatIndex(metric=metric)`, a new instance
NewFlatIndex(flat, lib_id, metric, ref) ==
  [ref |-> ref, metric |-> metric, ids |-> <<>>, vecs |-> <<>>]

\* the records after the instance new.ref has been given the fields of new
WrittenCache(new) ==
  [l \in DOMAIN flat_indices |->
     IF flat_indices[l].ref = new.ref THEN new ELSE flat_indices[l]]

WrittenLocals(new) ==
  [u \in Threads |->
     IF HasRef(th[u].idx) /\ th[u].idx.ref = new.ref THEN [th[u] EXCEPT !.idx = new]
     ELSE th[u]]

\* IndexingService.build(lib, "flat", metric, {}): the library check and get_lock
SwapBuildEnter(t) ==
  \E lib_id \in KnownLibs, metric \in Metrics :
    LET r0 == get_lock(repo, lib_id, LiveLocks)
    IN /\ th[t].pc = "idle"
       /\ lib_id \in DOMAIN repo.libraries
       /\ repo' = r0
       /\ th' = [th EXCEPT ![t] = [IdleThread EXCEPT !.op = "index.build", !.mode = "write",
                                      !.pc = "acquire_write", !.lk = r0.locks[lib_id],
                                      !.lib = lib_id,
                                      !.idx = [metric |-> metric, ids |-> <<>>]]]
       /\ UNCHANGED <<disk, next_id, last, rw, SeqVars>>

\* _create_index: pairs = list(_pairs_for_library), idx = FlatIndex(metric), and the
\* first statement of rebuild, `self.ids, self.vecs = [], []`
SwapCreate(t) ==
  LET made == NewFlatIndex(flat_indices, th[t].lib, th[t].idx.metric, NewRef)
      new == [made EXCEPT !.ids = <<>>, !.vecs = <<>>]
  IN /\ th[t].op = "index.build"
     /\ th[t].pc = "locked"
     /\ ~PairsRaise(repo, th[t].lib)
     /\ flat_indices' = WrittenCache(new)
     /\ th' = [WrittenLocals(new) EXCEPT ![t].idx = new, ![t].pc = "rebuild",
                                         ![t].pending = _pairs_for_library(repo, th[t].lib)]
     /\ UNCHANGED <<repo, disk, next_id, last, rw, rp_indices, snap, n_snap, n_fault,
                    lazy_flat, libraries_repo, wf>>

\* rebuild: one turn of `for id_, v in pairs: self.ids.append(id_); self.vecs.append(v)`
SwapAppend(t) ==
  LET pair == Head(th[t].pending)
      new == [th[t].idx EXCEPT !.ids = Append(@, pair[1]), !.vecs = Append(@, pair[2])]
  IN /\ th[t].op = "index.build"
     /\ th[t].pc = "rebuild"
     /\ th[t].pending # <<>>
     /\ flat_indices' = WrittenCache(new)
     /\ th' = [WrittenLocals(new) EXCEPT ![t].pending = Tail(@)]
     /\ UNCHANGED <<repo, disk, next_id, last, rw, rp_indices, snap, n_snap, n_fault,
                    lazy_flat, libraries_repo, wf>>

\* _create_index: `self.flat_indices[lib_id] = idx`; build then fails on
\* lib.index_states and leaves through `finally: lock.release_write()`
SwapAssign(t) ==
  /\ th[t].op = "index.build"
  /\ th[t].pc = "rebuild"
  /\ th[t].pending = <<>>
  /\ flat_indices' = Put(flat_indices, th[t].lib, th[t].idx)
  /\ th' = Goto(t, "release_write")
  /\ UNCHANGED <<repo, disk, next_id, last, rw, rp_indices, snap, n_snap, n_fault,
                 lazy_flat, libraries_repo, wf>>

\* get_live_index_params, which takes no lock: `fl = self.flat_indices.get(lib_id)`
LiveGet(t) ==
  \E lib_id \in KnownLibs :
    /\ th[t].pc = "idle"
    /\ lib_id \in DOMAIN repo.libraries
    /\ lib_id \in DOMAIN flat_indices
    /\ th' = [th EXCEPT ![t] = [IdleThread EXCEPT !.op = "index.live", !.pc = "live_read",
                                   !.lib = lib_id, !.idx = flat_indices[lib_id]]]
    /\ UNCHANGED <<repo, disk, next_id, last, rw, SeqVars>>

\* get_live_index_params: the reads of fl.metric and len(fl.ids)
LiveRead(t) ==
  /\ th[t].op = "index.live"
  /\ th[t].pc = "live_read"
  /\ last' = [op |-> "index.live", status |-> "ok", lib |-> th[t].lib, doc |-> 0,
              hits |-> <<>>, metric |-> th[t].idx.metric, size |-> Len(th[t].idx.ids)]
  /\ th' = Done(t)
  /\ UNCHANGED <<repo, disk, next_id, rw, SeqVars>>

NextSwap ==
  \E t \in Workers :
    \/ SwapBuildEnter(t)
    \/ SwapCreate(t)
    \/ SwapAppend(t)
    \/ SwapAssign(t)
    \/ LiveGet(t)
    \/ LiveRead(t)
    \/ AcquireWriteLock(t)
    \/ AcquireWriteLoop(t)
    \/ ReleaseWrite(t)

SpecSwap == InitSearch /\ [][NextSwap]_vars

\* the instance holds every pair of the library, in the order of _pairs_for_library
CompleteIndex(x, l) ==
  /\ x.ids = FlatIndex(x.metric, _pairs_for_library(repo, l)).ids
  /\ x.vecs = FlatIndex(x.metric, _pairs_for_library(repo, l)).vecs

\* the instances the cache holds or a reader has taken from it
PublishedRefs ==
  {flat_indices[l].ref : l \in DOMAIN flat_indices}
    \cup {th[u].idx.ref : u \in {v \in Threads : th[v].op = "index.live"}}

\* C32: a step changes the cache entry of a library only by assigning a complete
\* instance not published before, while the assigning thread owns the library's write lock; an instance the
\* cache holds, or a thread has taken from the cache, keeps every field afterwards.
C32_IndexSwapAtomic ==
  [][/\ \A l \in DOMAIN flat_indices' : CompleteIndex(flat_indices'[l], l)
     /\ \A l \in DOMAIN flat_indices :
          /\ l \in DOMAIN flat_indices'
          /\ flat_indices'[l].ref = flat_indices[l].ref => flat_indices'[l] = flat_indices[l]
     /\ \A l \in DOMAIN flat_indices' :
          (l \notin DOMAIN flat_indices \/ flat_indices'[l] # flat_indices[l])
            => /\ flat_indices'[l].ref \notin PublishedRefs
               /\ \E t \in Threads :
                    /\ th[t].op = "index.build"
                    /\ th[t].lib = l
                    /\ th[t].lk = repo.locks[l]
                    /\ rw[th[t].lk].owner = t
     /\ \A u \in Threads :
          (th[u].op = "index.live" /\ th'[u].op = "index.live")
            => /\ th'[u].idx = th[u].idx
               /\ CompleteIndex(th[u].idx, th[u].lib)]_vars

\* a reader still holds the instance it took while the cache already holds the
\* instance of a later build with the other metric
C32_Witness ==
  \E u \in Threads :
    /\ th[u].op = "index.live"
    /\ th[u].lib \in DOMAIN flat_indices
    /\ flat_indices[th[u].lib].ref # th[u].idx.ref
    /\ flat_indices[th[u].lib].metric # th[u].idx.metric
    /\ Len(th[u].idx.ids) >= 2

(* ----------------------- one tree of an RP forest ----------------------- *)
MaxTreePoints == 5

\* directions of the sampled hyperplanes.  _random_vector draws from a continuous
\* distribution, so different points project to different values; these directions
\* have that property on the vectors of the model (the length of w does not change
\* the order of the projections)
TreeDirs == {<<1, 2>>, <<2, 1>>, <<0 - 1, 2>>, <<1, 0 - 2>>, <<0 - 1, 0 - 2>>, <<0 - 2, 0 - 1>>}

\* projs.sort(key=lambda t: t[0]): ascending, equal projections in the order of idxs
SortedByProj(idxs, vecs, w) ==
  LET by == nlargest(Len(idxs), [i \in DOMAIN idxs |-> <<idxs[i], 0 - dot(w, vecs[idxs[i]])>>])
  IN [i \in DOMAIN by |-> by[i][1]]

\* one turn of the `while tries < 5` loop of _build_node for the hyperplane w
SplitAt(idxs, vecs, w) ==
  LET sorted == SortedByProj(idxs, vecs, w)
      b == dot(w, vecs[sorted[(Len(sorted) \div 2) + 1]])
      Below(i) == dot(w, vecs[i]) < b
      NotBelow(i) == dot(w, vecs[i]) >= b
  IN [w |-> w, b |-> b, left_idxs |-> SelectSeq(sorted, Below),
      right_idxs |-> SelectSeq(sorted, NotBelow)]

\* _RPTree._build_node: the trees it can return, each as the list of its leaves from
\* left to right; fallback says that some node became a leaf after five degenerate
\* splits.  leaf_size is _RPTree.leaf_size.
RECURSIVE _build_node(_, _, _)
_build_node(idxs, vecs, leaf_size) ==
  IF Len(idxs) <= leaf_size THEN {[leaves |-> <<idxs>>, fallback |-> FALSE]}
  ELSE LET splits == {SplitAt(idxs, vecs, w) : w \in TreeDirs}
           good == {s \in splits : s.left_idxs # <<>> /\ s.right_idxs # <<>>}
       IN UNION {{[leaves |-> l.leaves \o r.leaves, fallback |-> l.fallback \/ r.fallback] :
                    l \in _build_node(s.left_idxs, vecs, leaf_size),
                    r \in _build_node(s.right_idxs, vecs, leaf_size)} : s \in good}
            \cup (IF good # splits THEN {[leaves |-> <<idxs>>, fallback |-> TRUE]} ELSE {})

\* _RPTree.__init__: self.leaf_size = max(leaf_size, 4)
RPTree_leaf_size(leaf_size) == Max(leaf_size, 4)

\* the lists of pairs with ids 1..n in this order
TreePairLists ==
  UNION {{[i \in 1..n |-> <<i, vecs[i]>>] : vecs \in [1..n -> Vectors]} : n \in 0..MaxTreePoints}

TreeParams == [trees : {1}, leaf_size : 1..MaxTreePoints, seed : {42}, candidate_mult : {20}]

\* RPForestIndex(metric, trees=1, leaf_size=L).rebuild(pairs) about to build its tree
InitTree ==
  \E pairs \in TreePairLists, params \in TreeParams :
    /\ flat_indices = EmptyMap
    /\ rp_indices = Put(EmptyMap, 1, RPForestIndex("cosine", params, pairs))
    /\ repo = InMemoryRepo
    /\ disk = DiskStore
    /\ next_id = [lib |-> 1, doc |-> 1, chunk |-> 1]
    /\ snap = SnapIdle
    /\ last = Outcome("init", "ok", 0, 0, 0)
    /\ n_snap = 0
    /\ n_fault = 0
    /\ th = [t \in Threads |-> IdleThread]
    /\ rw = [i \in LockIds |-> RWLock]
    /\ lazy_flat = EmptyMap
    /\ libraries_repo = InMemoryRepo
    /\ wf = QueryWorkflow

\* rebuild: `t = _RPTree(leaf_size=self.leaf_size, rng=rng); t.build(ids, vecs)`
RPTreeBuild ==
  /\ Unqueried
  /\ \E tree \in _build_node([i \in DOMAIN rp_indices[1].ids |-> i], rp_indices[1].vecs,
                             RPTree_leaf_size(rp_indices[1].leaf_size)) :
       /\ last' = [op |-> "rp.build", status |-> "ok", lib |-> 1, doc |-> 0, hits |-> <<>>,
                   leaves |-> tree.leaves, fallback |-> tree.fallback]
       /\ UNCHANGED <<repo, disk, flat_indices, rp_indices, next_id, snap, n_snap, n_fault,
                      th, rw, lazy_flat, libraries_repo, wf>>

NextTree == RPTreeBuild

SpecTree == InitTree /\ [][NextTree]_vars

\* C33: in a tree of a forest built with leaf_size L, unless a node fell back to a leaf
\* after degenerate splits, no leaf holds more than L ids.
C33_LeafRule ==
  (last.op = "rp.build" /\ ~last.fallback)
    => \A i \in DOMAIN last.leaves : Len(last.leaves[i]) <= rp_indices[1].leaf_size

\* what is left of C33: the leaves partition the points, none is empty unless there is
\* no point, and without a fallback no leaf holds more than max(L, 4) ids
C33_LeafRuleFloor ==
  last.op = "rp.build"
    => /\ \A i \in DOMAIN rp_indices[1].ids :
            Cardinality({j \in DOMAIN last.leaves :
                           \E m \in DOMAIN last.leaves[j] : last.leaves[j][m] = i}) = 1
       /\ \A j \in DOMAIN last.leaves : last.leaves[j] # <<>> \/ rp_indices[1].ids = <<>>
       /\ ~last.fallback
            => \A j \in DOMAIN last.leaves :
                 Len(last.leaves[j]) <= Max(rp_indices[1].leaf_size, 4)

\* five points, leaf_size 4: the tree has split its points into more than one leaf
C33_SplitReached ==
  last.op = "rp.build" /\ ~last.fallback /\ Len(last.leaves) >= 2

(* ------------------ get_lock, statement by statement -------------------- *)
\* LibraryService.create up to the call of get_lock: the library and its document set
\* are stored
LockIdCreateStore(t) ==
  \E name \in Names :
    LET id == next_id.lib
        lib == Library(id, name)
    IN /\ th[t].pc = "idle"
       /\ id <= MaxLibs
       /\ repo' = [repo EXCEPT !.libraries = Put(@, id, lib), !.by_library_docs = Put(@, id, {})]
       /\ next_id' = [next_id EXCEPT !.lib = @ + 1]
       /\ th' = [th EXCEPT ![t] = [IdleThread EXCEPT !.op = "library.create", !.pc = "get_lock",
                                      !.lib = id,
                                      !.pending = <<[op |-> "library.create",
                                                     data |-> LibraryJson(lib)]>>]]
       /\ UNCHANGED <<disk, last, rw, SeqVars>>

\* a handler that works under the write lock (ChunkService.create/update/delete,
\* IndexingService.build), up to the call of get_lock: the library exists
LockIdEnter(t) ==
  \E lib_id \in KnownLibs :
    /\ th[t].pc = "idle"
    /\ lib_id \in DOMAIN repo.libraries
    /\ th' = [th EXCEPT ![t] = [IdleThread EXCEPT !.op = "lock", !.mode = "write",
                                   !.pc = "get_lock", !.lib = lib_id]]
    /\ UNCHANGED <<repo, disk, next_id, last, rw, SeqVars>>

\* get_lock: `if lib_id not in self.locks:`
GetLockTest(t) ==
  /\ th[t].pc = "get_lock"
  /\ th' = Goto(t, IF th[t].lib \in DOMAIN repo.locks THEN "get_lock_return" ELSE "get_lock_new")
  /\ UNCHANGED <<repo, disk, next_id, last, rw, SeqVars>>

\* get_lock: `self.locks[lib_id] = RWLock()`
GetLockNew(t) ==
  /\ th[t].pc = "get_lock_new"
  /\ repo' = [repo EXCEPT !.locks = Put(@, th[t].lib, NewLockId(repo.locks, LiveLocks))]
  /\ th' = Goto(t, "get_lock_return")
  /\ UNCHANGED <<disk, next_id, last, rw, SeqVars>>

\* get_lock: `return self.locks[lib_id]`, a KeyError when the entry has been popped;
\* the caller goes on to acquire_write, or to append_wal in LibraryService.create
GetLockReturn(t) ==
  /\ th[t].pc = "get_lock_return"
  /\ th' = IF th[t].lib \notin DOMAIN repo.locks THEN Done(t)
           ELSE IF th[t].op = "library.create" THEN Goto(t, "wal")
           ELSE [th EXCEPT ![t].lk = repo.locks[th[t].lib], ![t].pc = "acquire_write"]
  /\ UNCHANGED <<repo, disk, next_id, last, rw, SeqVars>>

NextLockId ==
  \/ LibDelete(NoFault)
  \/ \E t \in Threads :
       \/ LockIdCreateStore(t)
       \/ LockIdEnter(t)
       \/ GetLockTest(t)
       \/ GetLockNew(t)
       \/ GetLockReturn(t)
       \/ WalAppend(t)
       \/ AcquireWriteLock(t)
       \/ AcquireWriteLoop(t)
       \/ LockEnd(t)
       \/ ReleaseWrite(t)

SpecLockId == Init /\ [][NextLockId]_vars

\* thread t has a lock from get_lock for the library it works on
HasLock(t) == th[t].op = "lock" /\ th[t].lk # 0

\* C34: every thread that got a lock for a library that exists has the instance the
\* lock map holds for it, and two threads that hold the write side for one library hold
\* it on the same instance.
C34_LockIdentity ==
  /\ \A t \in Threads :
       (HasLock(t) /\ th[t].lib \in DOMAIN repo.libraries)
         => /\ th[t].lib \in DOMAIN repo.locks
            /\ repo.locks[th[t].lib] = th[t].lk
  /\ \A t, u \in Threads :
       (HasLock(t) /\ HasLock(u) /\ HoldsWrite(t) /\ HoldsWrite(u) /\ th[t].lib = th[u].lib)
         => th[t].lk = th[u].lk

\* two threads hold the write side for one library at the same time
C34_TwoWriters ==
  \E t, u \in Threads :
    /\ t # u
    /\ HasLock(t) /\ HasLock(u)
    /\ HoldsWrite(t) /\ HoldsWrite(u)
    /\ th[t].lib = th[u].lib

\* the same while the library exists
C34_TwoWritersOfStoredLibrary ==
  \E t, u \in Threads :
    /\ t # u
    /\ HasLock(t) /\ HasLock(u)
    /\ HoldsWrite(t) /\ HoldsWrite(u)
    /\ th[t].lib = th[u].lib
    /\ th[t].lib \in DOMAIN repo.libraries

\* what is left of C34: the write side of one lock instance is held by one thread at a
\* time
C34_OneWriterPerInstance ==
  \A t, u \in Threads :
    (HasLock(t) /\ HasLock(u) /\ HoldsWrite(t) /\ HoldsWrite(u) /\ th[t].lk = th[u].lk) => t = u

(* ------------- POST /admin/snapshot concurrent with mutations ------------ *)
\* the process is killed while no mutation handler is running, and a new one runs
\* bootstrap_from_disk
RestartQuiet ==
  /\ \A t \in Threads : th[t].pc = "idle"
  /\ Restart(TRUE)

\* the thread that serves the mutation requests
Mutator == CHOOSE t \in Threads : \A u \in Threads : t <= u

(* Library updates, one at a time, run in one thread while force_snapshot makes its
   file-system calls in another; neither takes a lock *)
NextSnapRace ==
  \/ LibCreate(NoFault)
  \/ Snapshot
  \/ SnapReturn
  \/ RestartQuiet
  \/ LibUpdateMem(Mutator)
  \/ WalAppend(Mutator)

SpecSnapRace == Init /\ [][NextSnapRace]_vars

\* a step in which the process is restarted while no handler is in flight
QuietRestartStep ==
  /\ last'.op = "bootstrap"
  /\ snap' = SnapIdle
  /\ UNCHANGED <<disk, th, n_snap>>
  /\ \A t \in Threads : th[t].pc = "idle"

\* C35: a restart while no handler is in flight, so that every mutation applied in
\* memory has had its WAL append return, brings back every one of them, wherever the
\* snapshot handler stood.
C35_SnapshotKeepsCommitted == [][QuietRestartStep => SameState(repo', repo)]_vars

\* what is left of C35: when no snapshot has been started, a restart brings back every
\* committed mutation
C35_WithoutSnapshot == [][(QuietRestartStep /\ n_snap = 0) => SameState(repo', repo)]_vars

\* a restart has lost a committed library update: the files hold the first name only
C35_LostUpdate ==
  /\ last.op = "bootstrap"
  /\ disk.wal = <<>>
  /\ disk.snapshot # NoSnapshot
  /\ \E l \in DOMAIN repo.libraries : repo.libraries[l].name = 1
  /\ \A t \in Threads : th[t].pc = "idle"

(* --------------- searches over an index that outlives chunks ------------- *)
\* chunk updates per run
MaxUpdates == 1

\* the stored library holds chunks 1 and 2, with texts 1 and 2
InitStale == InitSearch /\ repo = Populated(<<1, 2>>).repo

\* POST /index/build of a library that has no live index yet, cosine metric
IndexBuildFirst ==
  \E lib_id \in KnownLibs, algo \in Algos :
    LET b == IndexingService_build(flat_indices, rp_indices, repo, lib_id, algo, "cosine",
                                   DefaultParams, TRUE, LiveLocks)
    IN /\ Ready
       /\ lib_id \notin DOMAIN flat_indices \cup DOMAIN rp_indices
       /\ repo' = b.repo
       /\ flat_indices' = b.flat
       /\ rp_indices' = b.rp
       /\ last' = [op |-> "index.build", status |-> b.status, lib |-> lib_id, doc |-> 0,
                   hits |-> <<>>, algo |-> algo]
       /\ UNCHANGED <<disk, snap, next_id, n_snap, n_fault, th, rw, lazy_flat, libraries_repo, wf>>

\* DELETE of a stored chunk, under the document that holds it
ChunkDeleteOwned ==
  \E chunk_id \in DOMAIN repo.chunks :
    LET doc_id == repo.chunks[chunk_id].document_id
        s == ChunkService_delete(repo, disk.wal, doc_id, chunk_id, 0, LiveLocks)
    IN /\ Ready
       /\ CascadeCommit(s)
       /\ last' = [op |-> "chunk.delete", status |-> s.status, lib |-> 0, doc |-> doc_id,
                   hits |-> <<>>, chunk |-> chunk_id]
       /\ UNCHANGED <<flat_indices, rp_indices, snap, next_id, n_snap, n_fault, th, rw,
                      lazy_flat, libraries_repo, wf>>

\* the chunk.update entries of WAL w
Updates(w) == {i \in DOMAIN w : w[i].op = "chunk.update"}

\* PATCH of a stored chunk with a text it does not have
ChunkUpdateStored ==
  \E chunk_id \in DOMAIN repo.chunks, text \in SearchTexts :
    LET s == ChunkService_update(repo, disk.wal, chunk_id, text, 0, LiveLocks)
    IN /\ Ready
       /\ text # repo.chunks[chunk_id].text
       /\ Cardinality(Updates(disk.wal)) < MaxUpdates
       /\ CascadeCommit(s)
       /\ last' = [op |-> "chunk.update", status |-> s.status, lib |-> 0, doc |-> 0,
                   hits |-> <<>>, chunk |-> chunk_id, text |-> text]
       /\ UNCHANGED <<flat_indices, rp_indices, snap, next_id, n_snap, n_fault, th, rw,
                      lazy_flat, libraries_repo, wf>>

\* the filters of the searches: none, or chunks whose text is 1
StaleFilters == {NoFilters, [chunk |-> [field |-> "text", op |-> "eq", arg |-> 1],
                             document |-> NoSpec, library |-> NoSpec]}

\* POST /search on the stored library for the MaxK best matches of text 1, cosine
\* metric; the request is kept with the hits until the response is sent
SearchStale ==
  \E lib_id \in DOMAIN repo.libraries, algo \in Algos \cup {"auto"}, filters \in StaleFilters :
   \E order \in Orders(IF algo = "flat" THEN {} ELSE SearchCandidates(rp_indices, lib_id)) :
    LET req == SearchRequest(1, NoEmb, MaxK, algo, "cosine", filters)
        res == SearchService_search(flat_indices, rp_indices, EmptyMap, repo, lib_id, req,
                                    LiveLocks, order)
    IN /\ Ready
       /\ repo' = res.repo
       /\ lazy_flat' = res.lazy
       /\ UNCHANGED <<libraries_repo, wf>>
       /\ last' = [op |-> "search", status |-> res.status, lib |-> lib_id, doc |-> 0,
                   hits |-> res.hits, req |-> req]
       /\ UNCHANGED <<disk, flat_indices, rp_indices, snap, next_id, n_snap, n_fault, th, rw>>

(* One caller at a time: a build, chunk and document deletes, chunk updates and searches
   over a stored library *)
NextStale ==
  \/ IndexBuildFirst
  \/ ChunkDeleteOwned
  \/ DocDeleteStored
  \/ ChunkUpdateStored
  \/ SearchStale
  \/ SearchRespond

SpecStale == InitStale /\ [][NextStale]_vars

\* the chunk ids of the hits of the last search
HitChunkIds == {last.hits[i].chunk_id : i \in DOMAIN last.hits}

\* the last call is a search on an existing library whose secondary maps name stored
\* documents and chunks only, so that it can fail on a missing id only through an index
SearchedSound ==
  /\ last.op = "search"
  /\ ResponsePending
  /\ last.lib \in DOMAIN repo.libraries
  /\ Get(repo.by_library_docs, last.lib, {}) \subseteq DOMAIN repo.documents
  /\ ~PairsRaise(repo, last.lib)

\* C36: a search on an existing library does not fail on a chunk id that is no longer
\* stored, and every hit it returns is a stored chunk.
C36_SearchSkipsMissing ==
  SearchedSound
    => /\ last.status # "key_error"
       /\ HitChunkIds \subseteq DOMAIN repo.chunks

\* the ids a live index of library l holds
LiveIndexIds(l) ==
  (IF l \in DOMAIN flat_indices THEN Range(flat_indices[l].ids) ELSE {})
    \cup (IF l \in DOMAIN rp_indices THEN Range(rp_indices[l].ids) ELSE {})

\* what is left of C36: a search on a library whose live indices hold stored chunks
\* only does not fail on a missing chunk, and its hits are stored chunks
C36_FreshIndexSearch ==
  (SearchedSound /\ LiveIndexIds(last.lib) \subseteq DOMAIN repo.chunks)
    => /\ last.status # "key_error"
       /\ HitChunkIds \subseteq DOMAIN repo.chunks

\* a search has failed on an id of a live index whose chunk is gone
C36_StaleHit ==
  /\ SearchedSound
  /\ last.status = "key_error"
  /\ ~(LiveIndexIds(last.lib) \subseteq DOMAIN repo.chunks)

(* -------------------------- what a search writes ------------------------ *)
\* C37: a search leaves every library, document and chunk as it was, the library's
\* embedding_dim included when the query comes as an explicit query_embedding.
C37_SearchReadOnly == [][last'.op = "search" => SameState(repo', repo)]_vars

\* library l of r with its embedding_dim left out
SansDim(r, l) == [r.libraries[l] EXCEPT !.embedding_dim = NoDim]

\* what is left of C37: a search changes nothing but the embedding_dim of a library
\* that had none, which becomes the length of the query vector
C37_SearchWritesDimOnly ==
  [][last'.op = "search"
       => /\ repo'.documents = repo.documents
          /\ repo'.chunks = repo.chunks
          /\ DOMAIN repo'.libraries = DOMAIN repo.libraries
          /\ \A l \in DOMAIN repo.libraries :
               /\ SansDim(repo', l) = SansDim(repo, l)
               /\ repo.libraries[l].embedding_dim # NoDim
                    => repo'.libraries[l].embedding_dim = repo.libraries[l].embedding_dim]_vars

\* a search with an explicit query_embedding has answered on a library that holds no
\* chunk, and the library has the dimension of the query
C37_DimFromQuery ==
  /\ last.op = "search"
  /\ last.status = "ok"
  /\ last.query_embedding # NoEmb
  /\ repo.chunks = EmptyMap
  /\ repo.libraries[last.lib].embedding_dim = Len(last.query_embedding)

(* ------------------------- progress of a writer ------------------------- *)
\* the steps of thread t inside the lock calls and its handler; LockBegin, a new call,
\* is the only step no thread has to take
LockSteps(t) ==
  \/ LockEnd(t)
  \/ AcquireRead(t)
  \/ ReleaseRead(t)
  \/ AcquireWriteLock(t)
  \/ AcquireWriteLoop(t)
  \/ CondWake(t)
  \/ ReleaseWrite(t)

\* Every thread that is inside a call keeps running: it returns from its handler and
\* releases what it holds, and a thread that finds _lock free again and again gets it.
\* New acquire_read and acquire_write calls may come at any time or not at all.
LockFairness == \A t \in Threads : SF_vars(LockSteps(t))

SpecLockFair == Init /\ [][NextLock]_vars /\ LockFairness

\* thread t is blocked in acquire_write, inside _cond.wait()
BlockedInWrite(t) == th[t].mode = "write" /\ th[t].pc \in {"cond_wait", "cond_notified"}

\* C38: a thread blocked in acquire_write gets the write lock in the end, when every
\* reader releases in the end, whatever new acquire_read calls other threads make.
C38_WriterProgress == \A t \in Threads : BlockedInWrite(t) ~> (th[t].pc = "locked")

\* no acquire_read call is in progress and no reader holds the lock
NoReader == \A u \in Threads : th[u].mode # "read"

\* what is left of C38: when from some time on no thread calls acquire_read, a thread
\* blocked in acquire_write gets the write lock
C38_ProgressWithoutNewReaders ==
  (<>[][\A u \in Threads : th'[u].mode = "read" => th[u].mode = "read"]_vars)
    => \A t \in Threads : BlockedInWrite(t) ~> (th[t].pc = "locked")

\* a writer is blocked while a reader holds the lock and another thread is about to read
C38_WriterBehindReaders ==
  \E t, u, v \in Threads :
    /\ BlockedInWrite(t)
    /\ th[u].mode = "read" /\ th[u].pc = "locked"
    /\ th[v].mode = "read" /\ th[v].pc = "acquire_read"

(* --------------- filters that admit every chunk, flat path -------------- *)
\* the answered search asked for algo flat with filters that every embedded chunk of
\* the library passes
AllAdmitted ==
  /\ FilteredSearchDone
  /\ last.req.algo = "flat"
  /\ last.req.filters # NoFilters
  /\ PassingEmbedded = EmbeddedIds(repo, last.lib)

\* the hits of the same request without filters, in the same state
UnfilteredHits ==
  SearchService_search(flat_indices, rp_indices, EmptyMap, repo, last.lib,
                       [last.req EXCEPT !.filters = NoFilters], LiveLocks, <<>>).hits

\* C39: a flat search whose filters admit every chunk of the library returns the hits,
\* with the scores and in the order, of the same search without filters, whatever the
\* request's metric and the metric of the live flat index.
C39_AllAdmittingFilter == AllAdmitted => last.hits = UnfilteredHits

\* what is left of C39: the two agree when no flat index is live for the library or
\* the live one was built with the request's metric
C39_SameMetricFilter ==
  (/\ AllAdmitted
   /\ last.lib \in DOMAIN flat_indices => flat_indices[last.lib].metric = last.req.metric)
    => last.hits = UnfilteredHits

\* an all-admitting filter has changed the scores of a flat search
C39_OtherMetric ==
  /\ AllAdmitted
  /\ last.lib \in DOMAIN flat_indices
  /\ flat_indices[last.lib].metric # last.req.metric
  /\ last.hits # UnfilteredHits

(* ============================ QueryWorkflow ============================ *)
\* filter values a request or a signal can carry
MaxFilter == 3

\* the filters of requests and signals: one condition on the chunk text each
WfFilters ==
  {[chunk |-> [field |-> "text", op |-> "eq", arg |-> a], document |-> NoSpec,
    library |-> NoSpec] : a \in 1..MaxFilter}

\* _stage values in the order run assigns them
Stages == <<"init", "preprocess", "retrieve", "rerank", "answer", "complete">>

StageRank(stage) == CHOOSE i \in DOMAIN Stages : Stages[i] = stage

\* an update_filters that stores the new filters at every stage
update_filters_AnyStage(w, new_filters) == [w EXCEPT !._filters = new_filters]

\* QueryWorkflow.update_filters
update_filters(w, new_filters) ==
  IF w._stage \in {"init", "preprocess"} THEN [w EXCEPT !._filters = new_filters] ELSE w

\* run, from the return of the preprocess activity to the call of the retrieve activity:
\* the filters of a signal received so far overwrite those of the normalized request
run_retrieve(w) ==
  LET pre == IF w._filters # NoFilters THEN w._filters ELSE w.payload
  IN [w EXCEPT !.pre = pre, !._stage = "retrieve",
               !.retrieve = [sent |-> TRUE, filters |-> pre]]

\* what is kept of a workflow step: the signal's filters, if it was a signal
WfOutcome(op, new_filters) ==
  [op |-> op, status |-> "ok", lib |-> 0, doc |-> 0, hits |-> <<>>, new_filters |-> new_filters]

WfUnchanged ==
  UNCHANGED <<repo, disk, flat_indices, rp_indices, next_id, snap, n_snap, n_fault, th, rw,
              lazy_flat, libraries_repo>>

\* the workflow is started: run sets _stage and calls the preprocess activity
WfRunStart ==
  \E filters \in WfFilters \cup {NoFilters} :
    /\ wf._stage = "init"
    /\ ~wf.closed
    /\ wf' = [wf EXCEPT !._stage = "preprocess", !.payload = filters]
    /\ last' = WfOutcome("run", NoFilters)
    /\ WfUnchanged

\* an update_filters signal is delivered to the open workflow
WfSignal ==
  \E new_filters \in WfFilters :
    /\ ~wf.closed
    /\ wf' = update_filters(wf, new_filters)
    /\ last' = WfOutcome("update_filters", new_filters)
    /\ WfUnchanged

\* the preprocess activity returns and run goes on to call retrieve
WfPreprocessed ==
  /\ wf._stage = "preprocess"
  /\ ~wf.closed
  /\ wf' = run_retrieve(wf)
  /\ last' = WfOutcome("preprocess", NoFilters)
  /\ WfUnchanged

\* the retrieve activity returns: _partial is set, rerank is called
WfRetrieved ==
  /\ wf._stage = "retrieve"
  /\ ~wf.closed
  /\ wf' = [wf EXCEPT !._partial = TRUE, !._stage = "rerank"]
  /\ last' = WfOutcome("retrieve", NoFilters)
  /\ WfUnchanged

\* the rerank activity returns: answer is called
WfReranked ==
  /\ wf._stage = "rerank"
  /\ ~wf.closed
  /\ wf' = [wf EXCEPT !._stage = "answer"]
  /\ last' = WfOutcome("rerank", NoFilters)
  /\ WfUnchanged

\* the answer activity returns and run returns
WfAnswered ==
  /\ wf._stage = "answer"
  /\ ~wf.closed
  /\ wf' = [wf EXCEPT !._stage = "complete", !.closed = TRUE]
  /\ last' = WfOutcome("answer", NoFilters)
  /\ WfUnchanged

\* an activity fails for the last time allowed by the retry policy: the workflow ends
\* at the stage it is in
WfActivityFailed ==
  /\ wf._stage \in {"preprocess", "retrieve", "rerank", "answer"}
  /\ ~wf.closed
  /\ wf' = [wf EXCEPT !.closed = TRUE]
  /\ last' = WfOutcome("activity_failed", NoFilters)
  /\ WfUnchanged

NextFlow ==
  \/ WfRunStart
  \/ WfSignal
  \/ WfPreprocessed
  \/ WfRetrieved
  \/ WfReranked
  \/ WfAnswered
  \/ WfActivityFailed

SpecFlow == Init /\ [][NextFlow]_vars

\* the step delivers an update_filters signal
SignalStep == last'.op = "update_filters"

\* C40: _stage only moves to the next of init, preprocess, retrieve, rerank, answer,
\* complete; a signal delivered at init or preprocess becomes the stored filters, and the
\* stored filters are those of the request passed to retrieve; a signal delivered at
\* retrieve or later changes neither the stored filters nor that request.
C40_SignalWindow ==
  [][/\ wf'._stage # wf._stage => StageRank(wf'._stage) = StageRank(wf._stage) + 1
     /\ (SignalStep /\ wf._stage \in {"init", "preprocess"})
          => wf'._filters = last'.new_filters
     /\ (wf'._stage = "retrieve" /\ wf._stage = "preprocess")
          => /\ wf'.retrieve.sent
             /\ wf'.retrieve.filters = IF wf._filters # NoFilters THEN wf._filters ELSE wf.payload
     /\ wf._stage \notin {"init", "preprocess"}
          => /\ wf'._filters = wf._filters
             /\ wf'.retrieve = wf.retrieve]_vars

\* a signal delivered during preprocess has replaced the request's own filters in the
\* request passed to retrieve, and a later signal with other filters has been delivered
C40_Witness ==
  /\ last.op = "update_filters"
  /\ wf._stage \in {"retrieve", "rerank", "answer"}
  /\ wf.payload # NoFilters
  /\ wf._filters # wf.payload
  /\ wf.retrieve = [sent |-> TRUE, filters |-> wf._filters]
  /\ last.new_filters # wf._filters

====
